---- MODULE Spec2Model ----
(***************************************************************************)
(* A model of the e-commerce backend: the relational store (products,      *)
(* orders, users) with READ COMMITTED transactions and row locks, and the  *)
(* request handlers that run against it, each as a task that is suspended  *)
(* at its store round trips.                                                *)
(*                                                                         *)
(* Prices are integers of cents: the product price column is               *)
(* Numeric(10, 2) and the order service computes with Decimal, so the      *)
(* arithmetic is exact.                                                     *)
(***************************************************************************)
EXTENDS Integers, Sequences, FiniteSets, TLC

(***************************************************************************)
(* Bounds of the model.                                                    *)
(***************************************************************************)
MaxQty == 2           \* largest quantity of one order item
InitStock == 3        \* stock of every product in the initial state
NewPrice == 1250      \* the price a product update sets, in cents
NewStock == 5         \* the stock a product update sets

\* Product ids a request may name; the rows of StockedProducts exist.
ProductIds == {1, 2, 3}
StockedProducts == {1, 2}
\* The create_order requests of a behaviour, each run once.
OrderTasks == {1, 2}
\* User ids, which stand for the usernames too; the rows of Accounts exist.
UserIds == {1, 2, 3}
Accounts == {1, 2}
\* The login, refresh, logout and /users/me requests of a behaviour.
AuthTasks == {1, 2, 3, 4}
\* The role and delete requests of administrators in a behaviour.
AdminTasks == {1, 2, 3}

\* The authenticated user of each create_order request.
Customer(t) == ((t - 1) % 2) + 1

\* The price of product p in the initial state, in cents (9.99, 5.50).
InitPrice(p) == IF p = 1 THEN 999 ELSE 550

VARIABLES
    products,   \* the product table, committed: id -> row
    orders,     \* the order table with its items, committed: a sequence, order_id = index
    plock,      \* the row lock of each product row: its owner, or NoOwner
    otask,      \* the create_order requests in flight
    ptask,      \* the product update request in flight
    users,      \* the user table, committed: id -> row
    atask,      \* the login, refresh, logout and /users/me requests in flight
    jti,        \* the number of tokens minted so far: the next token's jti
    issued,     \* the tokens that responses have handed to clients
    session,    \* history: per user, whether the last of login and logout to
                \* commit was a login ("in") or a logout ("out")
    ulock,      \* the row lock of each user row: its owner, or NoOwner
    utask,      \* the role and delete requests of administrators in flight
    cache,      \* the Redis cache: product id -> the cached snapshot, or none
    rtask,      \* the GET /orders/{order_id} requests and their answers
    gtask,      \* the GET /products/{product_id} requests in flight
    ctask,      \* the product create and delete requests in flight
    etask       \* the user create and update requests in flight

vars == <<products, orders, plock, otask, ptask,
          users, atask, jti, issued, session, ulock, utask,
          cache, rtask, gtask, ctask, etask>>
\* The state of the accounts and sessions, which the order and product
\* requests leave alone.
uvars == <<users, atask, jti, issued, session, ulock, utask>>
\* The requests of the token endpoints and what they mint.
tvars == <<atask, jti, issued, session>>
\* The requests of administrators and their row locks.
avars == <<ulock, utask>>
\* The state of the catalogue and the orders.
ovars == <<products, orders, plock, otask, ptask>>
\* The reads of orders and products and the maintenance of products and
\* accounts.
qvars == <<rtask, gtask, ctask, etask>>

NoOwner == <<"none", 0>>
OrderOwner(t) == <<"order", t>>
UpdateOwner == <<"update", 1>>

NoRow == [exists |-> FALSE, name |-> "", stock |-> 0, price |-> 0,
          available |-> FALSE]
\* The unique name of each product the store starts with.
InitName(p) == IF p = 1 THEN "Laptop" ELSE "Mouse"
\* No entry under a cache key, and the entry of a product: its ReadProduct
\* schema, the row's id with the row's columns.
NoEntry == [id |-> 0, name |-> "", stock |-> 0, price |-> 0, available |-> FALSE]
ReadProduct(id, row) ==
    [id |-> id, name |-> row.name, stock |-> row.stock, price |-> row.price,
     available |-> row.available]
\* What stands under a key while the Redis server cannot be reached: every
\* command on the key raises redis.exceptions.ConnectionError.
Unreachable == [NoEntry EXCEPT !.name = "ConnectionError"]
NoSnap == [p \in ProductIds |-> NoRow]
NoOrder == [user_id |-> 0, total_price |-> 0, items |-> <<>>]

(***************************************************************************)
(* OrderCreate: the request body, a list of (product_id, quantity) with    *)
(* both > 0.  The list may be empty and may name a product twice.          *)
(***************************************************************************)
OrderItemCreate == [product_id : ProductIds, quantity : 1..MaxQty]
OrderCreate ==
    {<<>>} \cup {<<i>> : i \in OrderItemCreate}
           \cup {<<i, j>> : i \in OrderItemCreate, j \in OrderItemCreate}

RequestedIds(items) == {items[k].product_id : k \in 1..Len(items)}

(***************************************************************************)
(* A validation in three passes: existence over every item, then stock     *)
(* over every item, then availability over every item.                     *)
(***************************************************************************)
ValidateItemsInPhases(items, product_map) ==
    LET Product(k) == product_map[items[k].product_id]
        Items == 1..Len(items)
    IN  IF \E k \in Items : ~Product(k).exists THEN "ProductNotFound"
        ELSE IF \E k \in Items : Product(k).stock < items[k].quantity
        THEN "InsufficientStock"
        ELSE IF \E k \in Items : ~Product(k).available
        THEN "ProductUnavailableError"
        ELSE "ok"

(***************************************************************************)
(* The first loop of create_order: each item in turn is checked for        *)
(* existence, stock and availability; the first failing check raises.      *)
(***************************************************************************)
RECURSIVE ValidateItems(_, _)
ValidateItems(items, product_map) ==
    IF items = <<>> THEN "ok"
    ELSE LET item == Head(items)
             product == product_map[item.product_id]
         IN  IF ~product.exists THEN "ProductNotFound"
             ELSE IF product.stock < item.quantity THEN "InsufficientStock"
             ELSE IF ~product.available THEN "ProductUnavailableError"
             ELSE ValidateItems(Tail(items), product_map)

\* Decimal(str(product.price)): the Numeric(10, 2) column value, unchanged.
PriceDecimal(price) == price

(***************************************************************************)
(* The second loop of create_order: the unit_price snapshot, the running   *)
(* total and the in-memory stock decrement, item by item.                  *)
(***************************************************************************)
RECURSIVE BuildOrder(_, _, _, _)
BuildOrder(items, product_map, order_items, total_price) ==
    IF items = <<>>
    THEN [product_map |-> product_map, order_items |-> order_items,
          total_price |-> total_price]
    ELSE LET item == Head(items)
             product == product_map[item.product_id]
             price_decimal == PriceDecimal(product.price)
         IN  BuildOrder(
                 Tail(items),
                 [product_map EXCEPT ![item.product_id].stock = @ - item.quantity],
                 Append(order_items, [product_id |-> item.product_id,
                                      quantity |-> item.quantity,
                                      unit_price |-> price_decimal]),
                 total_price + price_decimal * item.quantity)

IdleOrderTask ==
    [pc |-> "idle", items |-> <<>>, user |-> 0, snap |-> NoSnap, mem |-> NoSnap,
     locked |-> {}, order |-> NoOrder, result |-> "none"]

(***************************************************************************)
(* A create_order that goes to the lock query with any item list.          *)
(***************************************************************************)
CreateOrderBeginAnyList(t, items, user) ==
    /\ otask[t].pc = "idle"
    /\ otask' = [otask EXCEPT ![t] =
            [IdleOrderTask EXCEPT !.pc = "lock", !.items = items, !.user = user]]
    /\ UNCHANGED <<products, orders, plock, ptask, uvars, cache, qvars>>

(***************************************************************************)
(* create_order, up to the lock query: an empty item list raises           *)
(* EmptyOrder before any product is read.                                  *)
(***************************************************************************)
CreateOrderBegin(t, items, user) ==
    /\ otask[t].pc = "idle"
    /\ otask' = [otask EXCEPT ![t] =
            IF items = <<>>
            THEN [IdleOrderTask EXCEPT !.pc = "raised", !.result = "EmptyOrder"]
            ELSE [IdleOrderTask EXCEPT !.pc = "lock", !.items = items, !.user = user]]
    /\ UNCHANGED <<products, orders, plock, ptask, uvars, cache, qvars>>

(***************************************************************************)
(* The same query without FOR UPDATE: the rows are read as last committed, *)
(* no lock is taken and none is waited for.                                *)
(***************************************************************************)
ReadProductRowUnlocked(t, p) ==
    /\ otask[t].pc = "lock"
    /\ p \in RequestedIds(otask[t].items) \ otask[t].locked
    /\ products[p].exists
    /\ otask' = [otask EXCEPT ![t].locked = @ \cup {p}, ![t].snap[p] = products[p]]
    /\ UNCHANGED <<products, orders, plock, ptask, uvars, cache, qvars>>

(***************************************************************************)
(* A lock query that locks the products table instead of the matching      *)
(* rows: it waits while any product row is locked.                         *)
(***************************************************************************)
LockProductRowLockingTable(t, p) ==
    /\ otask[t].pc = "lock"
    /\ p \in RequestedIds(otask[t].items) \ otask[t].locked
    /\ products[p].exists
    /\ \A q \in ProductIds : plock[q] \in {NoOwner, OrderOwner(t)}
    /\ plock' = [plock EXCEPT ![p] = OrderOwner(t)]
    /\ otask' = [otask EXCEPT ![t].locked = @ \cup {p}, ![t].snap[p] = products[p]]
    /\ UNCHANGED <<products, orders, ptask, uvars, cache, qvars>>

(***************************************************************************)
(* get_many_by_ids_with_lock: SELECT ... WHERE id IN (...) FOR UPDATE.     *)
(* The store locks the matching rows one at a time, in the order of its    *)
(* scan; a row locked by another transaction makes the query wait, and the *)
(* row is then read as last committed.                                     *)
(***************************************************************************)
LockProductRow(t, p) ==
    /\ otask[t].pc = "lock"
    /\ p \in RequestedIds(otask[t].items) \ otask[t].locked
    /\ products[p].exists
    /\ plock[p] = NoOwner
    /\ plock' = [plock EXCEPT ![p] = OrderOwner(t)]
    /\ otask' = [otask EXCEPT ![t].locked = @ \cup {p}, ![t].snap[p] = products[p]]
    /\ UNCHANGED <<products, orders, ptask, uvars, cache, qvars>>

AllRowsLocked(t) ==
    \A p \in RequestedIds(otask[t].items) : products[p].exists => p \in otask[t].locked

(***************************************************************************)
(* A create_order with one loop: each item is checked and, when it passes, *)
(* decremented at once, so a later item's failed check leaves the earlier  *)
(* items' decrements in the session.                                       *)
(***************************************************************************)
RECURSIVE CheckAndDecrement(_, _)
CheckAndDecrement(items, product_map) ==
    IF items = <<>> THEN [result |-> "ok", mem |-> product_map]
    ELSE LET item == Head(items)
             checked == ValidateItems(<<item>>, product_map)
         IN  IF checked # "ok" THEN [result |-> checked, mem |-> product_map]
             ELSE CheckAndDecrement(
                      Tail(items),
                      [product_map EXCEPT ![item.product_id].stock = @ - item.quantity])

RunCreateOrderOneLoop(items, product_map, user) ==
    LET checked == CheckAndDecrement(items, product_map)
        built == BuildOrder(items, product_map, <<>>, 0)
    IN  IF checked.result # "ok"
        THEN [result |-> checked.result, mem |-> checked.mem, order |-> NoOrder]
        ELSE [result |-> "flushed", mem |-> built.product_map,
              order |-> [user_id |-> user, total_price |-> built.total_price,
                         items |-> built.order_items]]

(***************************************************************************)
(* create_order from product_map to the new Order: both loops.  A failed   *)
(* check raises out of the first loop, before the second one has touched   *)
(* any product.                                                            *)
(***************************************************************************)
RunCreateOrder(items, product_map, user) ==
    LET checked == ValidateItems(items, product_map)
        built == BuildOrder(items, product_map, <<>>, 0)
    IN  IF checked # "ok"
        THEN [result |-> checked, mem |-> product_map, order |-> NoOrder]
        ELSE [result |-> "flushed", mem |-> built.product_map,
              order |-> [user_id |-> user, total_price |-> built.total_price,
                         items |-> built.order_items]]

(***************************************************************************)
(* create_order after the lock query has returned, up to order_repo.add:   *)
(* the new order and the decremented stocks are flushed inside the         *)
(* transaction, or the exception of a failed check leaves the handler.     *)
(* Order.user_id is a foreign key to user.id: the INSERT of the order      *)
(* takes a key-share lock on the user's row and waits while a transaction  *)
(* holds that row FOR UPDATE.                                              *)
(***************************************************************************)
CreateOrderRun(t) ==
    /\ otask[t].pc = "lock"
    /\ AllRowsLocked(t)
    /\ LET out == RunCreateOrder(otask[t].items, otask[t].snap, otask[t].user)
       IN  /\ out.result = "flushed" => ulock[otask[t].user] = NoOwner
           /\ otask' = [otask EXCEPT
                ![t].pc = IF out.result = "flushed" THEN "flushed" ELSE "raised",
                ![t].result = out.result,
                ![t].mem = out.mem,
                ![t].order = out.order]
    /\ UNCHANGED <<products, orders, plock, ptask, uvars, cache, qvars>>

ReleaseOrderLocks(t) ==
    [p \in ProductIds |-> IF plock[p] = OrderOwner(t) THEN NoOwner ELSE plock[p]]

(***************************************************************************)
(* get_db: the handler returned, the transaction commits.  The flushed     *)
(* UPDATE of each locked product sets the stock computed in memory, the    *)
(* INSERTs add the order with its items, and the row locks are released.   *)
(***************************************************************************)
CreateOrderCommit(t) ==
    /\ otask[t].pc = "flushed"
    /\ products' = [p \in ProductIds |->
            IF p \in otask[t].locked
            THEN [products[p] EXCEPT !.stock = otask[t].mem[p].stock]
            ELSE products[p]]
    /\ orders' = Append(orders, otask[t].order)
    /\ plock' = ReleaseOrderLocks(t)
    /\ otask' = [otask EXCEPT ![t] =
            [IdleOrderTask EXCEPT !.pc = "done", !.result = "created"]]
    /\ UNCHANGED <<ptask, uvars, cache, qvars>>

(***************************************************************************)
(* A rollback that leaves the flushed stock decrements in the store.       *)
(***************************************************************************)
CreateOrderRollbackKeepingStock(t) ==
    /\ otask[t].pc = "raised"
    /\ products' = [p \in ProductIds |->
            IF p \in otask[t].locked
            THEN [products[p] EXCEPT !.stock = otask[t].mem[p].stock]
            ELSE products[p]]
    /\ plock' = ReleaseOrderLocks(t)
    /\ otask' = [otask EXCEPT ![t] =
            [IdleOrderTask EXCEPT !.pc = "done", !.result = otask[t].result]]
    /\ UNCHANGED <<orders, ptask, uvars, cache, qvars>>

(***************************************************************************)
(* get_db: an exception left the handler, the transaction rolls back and   *)
(* the row locks are released.                                             *)
(***************************************************************************)
CreateOrderRollback(t) ==
    /\ otask[t].pc = "raised"
    /\ plock' = ReleaseOrderLocks(t)
    /\ otask' = [otask EXCEPT ![t] =
            [IdleOrderTask EXCEPT !.pc = "done", !.result = otask[t].result]]
    /\ UNCHANGED <<products, orders, ptask, uvars, cache, qvars>>

(***************************************************************************)
(* UpdateProduct: the fields a request supplies (model_dump with           *)
(* exclude_unset), as a function from field names to the new values.       *)
(***************************************************************************)
PriceUpdates ==
    { [f \in {"price"} |-> NewPrice],
      [f \in {"available"} |-> FALSE],
      [f \in {"price", "available"} |-> IF f = "price" THEN NewPrice ELSE TRUE] }
StockUpdates ==
    { [f \in {"stock"} |-> NewStock],
      [f \in {"stock", "price"} |-> IF f = "price" THEN NewPrice ELSE NewStock] }

IdleProductTask ==
    [pc |-> "idle", id |-> 0, data |-> <<>>, loaded |-> NoRow, changed |-> {},
     result |-> "none"]

\* The attributes whose new value differs from the loaded one: the unit of
\* work writes only these.
ChangedFields(data, loaded) == {f \in DOMAIN data : data[f] # loaded[f]}

(***************************************************************************)
(* get_updated_product: SELECT the product by id, without a lock.          *)
(***************************************************************************)
UpdateProductBegin(id, data) ==
    /\ ptask.pc = "idle"
    /\ ptask' = IF products[id].exists
                THEN [IdleProductTask EXCEPT !.pc = "loaded", !.id = id,
                        !.data = data, !.loaded = products[id]]
                ELSE [IdleProductTask EXCEPT !.pc = "done", !.result = "NotFound"]
    /\ UNCHANGED <<products, orders, plock, otask, uvars, cache, qvars>>

\* The product create or delete request of a behaviour, and the lock owner
\* it is in the store.
CatalogTasks == {1}
CatalogOwner(t) == <<"catalog", t>>

IdleCatalogTask ==
    [pc |-> "idle", op |-> "none", id |-> 0, data |-> NoRow, status |-> 0,
     result |-> "none"]

\* The unique index on products.name: the id of a committed row other than
\* `id` that holds `name`, or 0.
NameHolder(table, id, name) ==
    IF \E q \in ProductIds \ {id} : table[q].exists /\ table[q].name = name
    THEN CHOOSE q \in ProductIds \ {id} : table[q].exists /\ table[q].name = name
    ELSE 0

\* A write of `name` by the transaction `me` waits while another open
\* transaction holds an uncommitted write of the same name, or has written
\* the row that holds it.
NameWriteWaits(name, id, me) ==
    \/ /\ me # UpdateOwner
       /\ ptask.pc = "flushed" /\ "name" \in ptask.changed
       /\ ptask.data.name = name
    \/ \E t \in CatalogTasks :
          /\ me # CatalogOwner(t)
          /\ ctask[t].pc = "flushed" /\ ctask[t].op = "create"
          /\ ctask[t].data.name = name
    \/ LET q == NameHolder(products, id, name)
       IN  q # 0 /\ plock[q] \notin {NoOwner, me}

\* What the flush of get_updated_product raises, which nothing in the
\* handler catches: the UPDATE of a row deleted since it was loaded, or of
\* a name another row holds.
UpdateFlushError(table, id, changed, data) ==
    IF ~table[id].exists THEN "StaleDataError"
    ELSE IF "name" \in changed /\ NameHolder(table, id, data.name) # 0
         THEN "IntegrityError"
         ELSE "none"

(***************************************************************************)
(* A flush of the product update that leaves the cache entry in place.     *)
(***************************************************************************)
UpdateProductFlushKeepingCache ==
    /\ ptask.pc = "loaded"
    /\ LET changed == ChangedFields(ptask.data, ptask.loaded)
       IN  /\ changed # {} => plock[ptask.id] = NoOwner
           /\ plock' = IF changed # {}
                       THEN [plock EXCEPT ![ptask.id] = UpdateOwner]
                       ELSE plock
           /\ ptask' = [ptask EXCEPT !.pc = "flushed", !.changed = changed]
    /\ UNCHANGED <<products, orders, otask, uvars, cache, qvars>>

(***************************************************************************)
(* get_updated_product: setattr for each supplied field, then flush: the   *)
(* UPDATE of the changed columns takes the row lock (and waits for it).    *)
(* An error of the flush leaves the handler as it is, the session rolls    *)
(* back and the cache key is not deleted; otherwise refresh, then the      *)
(* delete of the product's cache key, before the commit. An error of the   *)
(* cache delete leaves the handler the same way: nothing catches it, and   *)
(* the session rolls the UPDATE back.                                      *)
(***************************************************************************)
UpdateProductFlush ==
    /\ ptask.pc = "loaded"
    /\ LET changed == ChangedFields(ptask.data, ptask.loaded)
           error == UpdateFlushError(products, ptask.id, changed, ptask.data)
       IN  /\ changed # {} => plock[ptask.id] = NoOwner
           /\ "name" \in changed =>
                   ~NameWriteWaits(ptask.data.name, ptask.id, UpdateOwner)
           /\ IF error # "none"
              THEN /\ ptask' = [IdleProductTask EXCEPT !.pc = "done",
                                                       !.result = error]
                   /\ UNCHANGED <<plock, cache>>
              ELSE IF cache[ptask.id] = Unreachable
              THEN /\ ptask' = [IdleProductTask EXCEPT
                                    !.pc = "done", !.result = "ConnectionError"]
                   /\ UNCHANGED <<plock, cache>>
              ELSE /\ plock' = IF changed # {}
                               THEN [plock EXCEPT ![ptask.id] = UpdateOwner]
                               ELSE plock
                   /\ ptask' = [ptask EXCEPT !.pc = "flushed",
                                             !.changed = changed]
                   /\ cache' = [cache EXCEPT ![ptask.id] = NoEntry]
    /\ UNCHANGED <<products, orders, otask, uvars, qvars>>

(***************************************************************************)
(* A commit of the product update that also reprices the order items of    *)
(* the product, as if an item's unit_price were read through its product.  *)
(***************************************************************************)
UpdateProductCommitRepricing ==
    /\ ptask.pc = "flushed"
    /\ products' = [products EXCEPT ![ptask.id] =
            [f \in DOMAIN @ |-> IF f \in ptask.changed THEN ptask.data[f] ELSE @[f]]]
    /\ orders' = [i \in 1..Len(orders) |->
            [orders[i] EXCEPT !.items = [k \in 1..Len(@) |->
                IF @[k].product_id = ptask.id
                THEN [@[k] EXCEPT !.unit_price = products'[ptask.id].price]
                ELSE @[k]]]]
    /\ plock' = [p \in ProductIds |-> IF plock[p] = UpdateOwner THEN NoOwner ELSE plock[p]]
    /\ ptask' = [IdleProductTask EXCEPT !.pc = "done", !.result = "updated"]
    /\ UNCHANGED <<otask, uvars, cache, qvars>>

(***************************************************************************)
(* get_db: the product update's transaction commits.                       *)
(***************************************************************************)
UpdateProductCommit ==
    /\ ptask.pc = "flushed"
    /\ products' = [products EXCEPT ![ptask.id] =
            [f \in DOMAIN @ |-> IF f \in ptask.changed THEN ptask.data[f] ELSE @[f]]]
    /\ plock' = [p \in ProductIds |-> IF plock[p] = UpdateOwner THEN NoOwner ELSE plock[p]]
    /\ ptask' = [IdleProductTask EXCEPT !.pc = "done", !.result = "updated"]
    /\ UNCHANGED <<orders, otask, uvars, cache, qvars>>

(***************************************************************************)
(* Accounts and sessions.                                                  *)
(*                                                                         *)
(* A user row keeps one hashed_refresh_token.  A token is the payload the  *)
(* service signs: sub (the username), type and jti, the uuid4 that makes   *)
(* every minted token distinct.  All tokens are taken as unexpired.        *)
(***************************************************************************)
NoToken == [sub |-> 0, type |-> "none", jti |-> 0]
\* A string that does not decode: jwt.decode raises a JWTError.
Garbage == [sub |-> 0, type |-> "garbage", jti |-> 0]

\* core.security.get_password_hash and verify_password: a hash verifies
\* exactly the text it was made from.
get_password_hash(text) == [hashed |-> text]
verify_password(text, hashed) == hashed = get_password_hash(text)

NoHash == [hashed |-> NoToken]
Password(u) == [sub |-> u, type |-> "password", jti |-> 0]
PasswordOf == {Password(u) : u \in Accounts}

NoUser == [exists |-> FALSE, username |-> 0, role |-> "user",
           available |-> FALSE,
           hashed_password |-> NoHash, hashed_refresh_token |-> NoHash]
Account(u, role) == [exists |-> TRUE, username |-> u, role |-> role,
                     available |-> TRUE,
                     hashed_password |-> get_password_hash(Password(u)),
                     hashed_refresh_token |-> NoHash]

\* create_access_token and create_refresh_token: the payload they encode.
create_access_token(sub, n) == [sub |-> sub, type |-> "access", jti |-> n]
create_refresh_token(sub, n) == [sub |-> sub, type |-> "refresh", jti |-> n]

\* What can be wrong with a token that has the three parts of a JWT: the
\* signature (another key), the issuer, the audience, the expiry (passed).
TokenFaults == {"signature", "issuer", "audience", "expired"}
Tampered(token, fault) ==
    [sub |-> token.sub, type |-> token.type, jti |-> token.jti, fault |-> fault]

\* jwt.decode with the key, the audience and the issuer of the settings:
\* the error it raises, ExpiredSignatureError being an InvalidTokenError
\* that the callers may catch first.
decode_error(token) ==
    IF token = Garbage THEN "InvalidTokenError"
    ELSE IF "fault" \in DOMAIN token
         THEN IF token.fault = "expired" THEN "ExpiredSignatureError"
              ELSE "InvalidTokenError"
         ELSE "none"

\* jwt.decode: the payload, or NoToken when the decoding raises.
decode(token) == IF decode_error(token) # "none" THEN NoToken ELSE token

\* UserRepository.get_by_username: the row, which may not exist.
get_by_username(table, username) ==
    IF \E u \in UserIds : table[u].exists /\ table[u].username = username
    THEN table[CHOOSE u \in UserIds :
                    table[u].exists /\ table[u].username = username]
    ELSE NoUser

Unauthorized == [status |-> 401, detail |-> "Could not validate credentials",
                 uid |-> 0, tokens |-> {}, hash |-> NoHash]

\* get_current_user without the check of the token type.
GetCurrentUserAnyType(table, token) ==
    LET payload == decode(token)
        user == get_by_username(table, payload.sub)
    IN  IF payload = NoToken THEN 0
        ELSE IF payload.sub = 0 THEN 0
        ELSE IF ~user.exists THEN 0
        ELSE payload.sub

\* get_current_user that takes the user from the token's subject and does
\* not select the row.
GetCurrentUserTrustingSub(table, token) ==
    LET payload == decode(token)
    IN  IF payload = NoToken THEN 0
        ELSE IF payload.type # "access" THEN 0
        ELSE payload.sub

\* get_current_user: the id of the token's user, or 0 for the 401.
get_current_user(table, token) ==
    LET payload == decode(token)
        user == get_by_username(table, payload.sub)
    IN  IF payload = NoToken THEN 0
        ELSE IF payload.type # "access" THEN 0
        ELSE IF payload.sub = 0 THEN 0
        ELSE IF ~user.exists THEN 0
        ELSE payload.sub

\* get_current_user: the detail of the 401 it raises.
get_current_user_detail(token) ==
    IF decode_error(token) = "ExpiredSignatureError" THEN "Token has expired"
    ELSE "Could not validate credentials"

\* get_current_active_user and the handler of GET /users/me: the status.
read_users_me(table, token) ==
    LET uid == get_current_user(table, token)
    IN  IF uid = 0 THEN 401
        ELSE IF ~table[uid].available THEN 401
        ELSE 200

\* The detail of the 401 of GET /users/me.
read_users_me_detail(table, token) ==
    LET uid == get_current_user(table, token)
    IN  IF uid = 0 THEN get_current_user_detail(token)
        ELSE IF ~table[uid].available THEN "Inactive user"
        ELSE ""

\* get_login_for_access_token that stores a refresh token only when the
\* row holds none.
LoginKeepingStoredToken(table, username, password, n) ==
    LET user == get_by_username(table, username)
        refresh == create_refresh_token(username, n + 1)
    IN  IF ~user.exists THEN Unauthorized
        ELSE IF ~verify_password(password, user.hashed_password)
        THEN Unauthorized
        ELSE [status |-> 200, uid |-> username,
              tokens |-> {create_access_token(username, n), refresh},
              hash |-> IF user.hashed_refresh_token = NoHash
                       THEN get_password_hash(refresh)
                       ELSE user.hashed_refresh_token]

\* A login that tells an unknown username from a wrong password.
LoginNamingTheUnknownUser(table, username, password, n) ==
    LET user == get_by_username(table, username)
        refresh == create_refresh_token(username, n + 1)
    IN  IF ~user.exists THEN [Unauthorized EXCEPT !.detail = "User not found"]
        ELSE IF ~verify_password(password, user.hashed_password)
        THEN Unauthorized
        ELSE [status |-> 200, uid |-> username,
              tokens |-> {create_access_token(username, n), refresh},
              hash |-> get_password_hash(refresh)]

\* authenticate_user and get_login_for_access_token, up to the return: the
\* status, the tokens of the response and the hash set on the user object.
get_login_for_access_token(table, username, password, n) ==
    LET user == get_by_username(table, username)
        refresh == create_refresh_token(username, n + 1)
    IN  IF ~user.exists THEN Unauthorized
        ELSE IF ~verify_password(password, user.hashed_password)
        THEN Unauthorized
        ELSE [status |-> 200, uid |-> username,
              tokens |-> {create_access_token(username, n), refresh},
              hash |-> get_password_hash(refresh)]

\* get_refresh_access_token that leaves the stored hash as it is.
RefreshWithoutRotation(table, token, n) ==
    LET payload == decode(token)
        user == get_by_username(table, payload.sub)
        refresh == create_refresh_token(payload.sub, n)
    IN  IF payload = NoToken THEN Unauthorized
        ELSE IF payload.type # "refresh" THEN Unauthorized
        ELSE IF payload.sub = 0 THEN Unauthorized
        ELSE IF ~user.exists \/ user.hashed_refresh_token = NoHash
        THEN Unauthorized
        ELSE IF ~verify_password(token, user.hashed_refresh_token)
        THEN Unauthorized
        ELSE [status |-> 200, uid |-> payload.sub,
              tokens |-> {refresh, create_access_token(payload.sub, n + 1)},
              hash |-> user.hashed_refresh_token]

\* get_refresh_access_token, up to the return.
get_refresh_access_token(table, token, n) ==
    LET payload == decode(token)
        user == get_by_username(table, payload.sub)
        refresh == create_refresh_token(payload.sub, n)
    IN  IF payload = NoToken THEN Unauthorized
        ELSE IF payload.type # "refresh" THEN Unauthorized
        ELSE IF payload.sub = 0 THEN Unauthorized
        ELSE IF ~user.exists \/ user.hashed_refresh_token = NoHash
        THEN Unauthorized
        ELSE IF ~verify_password(token, user.hashed_refresh_token)
        THEN Unauthorized
        ELSE [status |-> 200, uid |-> payload.sub,
              tokens |-> {refresh, create_access_token(payload.sub, n + 1)},
              hash |-> get_password_hash(refresh)]

\* POST /logout: get_current_user, then the hash of the user is cleared.
logout(table, token) ==
    LET uid == get_current_user(table, token)
    IN  IF uid = 0
        THEN [Unauthorized EXCEPT !.detail = get_current_user_detail(token)]
        ELSE [status |-> 200, uid |-> uid, tokens |-> {}, hash |-> NoHash]

IdleAuthTask == [pc |-> "idle", op |-> "none", presented |-> NoToken,
                 uid |-> 0, loaded |-> NoHash, hash |-> NoHash,
                 tokens |-> {}, status |-> 0, detail |-> ""]

\* What a login presents: the form, of which the username is kept.
LoginForm(username) == [sub |-> username, type |-> "form", jti |-> 0]

\* What a client can send as a token: one it was handed, or anything else.
Presentable == issued \cup {Garbage}

\* The handler has run up to its return, on the rows it selected: on a 401
\* the request is over (get_db rolls back a transaction that wrote
\* nothing), otherwise it waits for get_db to commit.
AuthRun(t, op, token, out, minted) ==
    /\ atask[t].pc = "idle"
    /\ atask' = [atask EXCEPT ![t] =
            IF out.status = 401
            THEN [IdleAuthTask EXCEPT !.pc = "done", !.op = op,
                                      !.presented = token, !.status = 401,
                                      !.detail = out.detail]
            ELSE [pc |-> "return", op |-> op, presented |-> token,
                  uid |-> out.uid,
                  loaded |-> users[out.uid].hashed_refresh_token,
                  hash |-> out.hash, tokens |-> out.tokens,
                  status |-> out.status, detail |-> ""]]
    /\ jti' = IF out.status = 401 THEN jti ELSE jti + minted
    /\ UNCHANGED <<users, issued, session, avars, ovars, cache, qvars>>

LoginBegin(t, username, password) ==
    AuthRun(t, "login", LoginForm(username),
            get_login_for_access_token(users, username, password, jti), 2)

RefreshBegin(t, token) ==
    AuthRun(t, "refresh", token, get_refresh_access_token(users, token, jti), 2)

LogoutBegin(t, token) ==
    AuthRun(t, "logout", token, logout(users, token), 0)

\* GET /users/me writes nothing.
ReadUsersMe(t, token) ==
    /\ atask[t].pc = "idle"
    /\ atask' = [atask EXCEPT ![t] =
            [IdleAuthTask EXCEPT !.pc = "done", !.op = "me",
                                 !.presented = token,
                                 !.status = read_users_me(users, token),
                                 !.detail = read_users_me_detail(users, token)]]
    /\ UNCHANGED <<users, jti, issued, session, avars, ovars, cache, qvars>>

\* get_db leaves session.begin(): the unit of work writes the attributes
\* that differ from the loaded ones, the transaction commits, and the
\* response carries the tokens.
AuthCommit(t) ==
    LET a == atask[t] IN
    /\ a.pc = "return"
    /\ a.hash # a.loaded => ulock[a.uid] = NoOwner
    /\ users' = IF a.hash # a.loaded
                THEN [users EXCEPT ![a.uid].hashed_refresh_token = a.hash]
                ELSE users
    /\ issued' = issued \cup a.tokens
    /\ session' = [session EXCEPT ![a.uid] =
            IF a.op = "login" THEN "in"
            ELSE IF a.op = "logout" THEN "out" ELSE @]
    /\ atask' = [atask EXCEPT ![t] =
            [IdleAuthTask EXCEPT !.pc = "done", !.op = a.op,
                                 !.presented = a.presented,
                                 !.status = a.status]]
    /\ UNCHANGED <<jti, avars, ovars, cache, qvars>>

(***************************************************************************)
(* Administration of users: PATCH /users/admin/users/{username}/role and   *)
(* DELETE /users/{user_id}.  Both depend on Admin_user, which selects the  *)
(* caller in the request's session first; the session's identity map then  *)
(* keeps the caller's attributes as they were loaded, so a later select    *)
(* of the caller's row in the same request sees the role admin.            *)
(***************************************************************************)
AdminOwner(t) == <<"admin", t>>

IdleAdminTask == [pc |-> "idle", op |-> "none", caller |-> 0, target |-> 0,
                  role |-> "user", locked |-> {}, status |-> "none"]

DoneAdminTask(status) ==
    [IdleAdminTask EXCEPT !.pc = "done", !.status = status]

\* select(func.count(UserModel.id)).where(UserModel.role == UserRole.admin)
count_admins(table) ==
    Cardinality({u \in UserIds : table[u].exists /\ table[u].role = "admin"})

\* The orders relationship of a user, as selectinload fills it.
user_orders(u) == {i \in 1..Len(orders) : orders[i].user_id = u}

\* The role the session shows for row u in a request of the caller.
loaded_role(table, caller, u) ==
    IF u = caller THEN "admin" ELSE table[u].role

\* get_current_user, get_current_active_user and require_role("admin"),
\* for the caller a valid access token names: the status, "ok" to go on.
require_role_admin(table, caller) ==
    IF ~table[caller].exists THEN "401"
    ELSE IF ~table[caller].available THEN "401"
    ELSE IF table[caller].role # "admin" THEN "403"
    ELSE "ok"

\* updated_new_role after the admin rows are locked: what it raises or
\* returns, "flush" when it goes on to write the role.
updated_new_role(table, caller, username, role) ==
    LET user_to_change == get_by_username(table, username)
        total_admins == count_admins(table)
        current == loaded_role(table, caller, username)
    IN  IF ~user_to_change.exists THEN "None"
        ELSE IF current = role THEN "UselessOperationError"
        ELSE IF current = "admin" /\ role = "user" /\ total_admins <= 1
        THEN "LastAdminError"
        ELSE "flush"

\* new_role_user: the 404 for the None that updated_new_role returns.
new_role_user(returned) == IF returned = "None" THEN "404" ELSE "200"

\* A get_delete_user that counts the admins before it looks at the orders.
GetDeleteUserCountingFirst(table, caller, id) ==
    LET total_admins == count_admins(table)
    IN  IF loaded_role(table, caller, id) = "admin" /\ total_admins <= 1
        THEN "LastAdminError"
        ELSE IF user_orders(id) # {} THEN "UserHasOrdersError"
        ELSE "None"

\* get_delete_user after the row is locked and loaded: what it raises,
\* or "None", which it returns after the flush of the delete.
get_delete_user(table, caller, id) ==
    LET total_admins == count_admins(table)
    IN  IF user_orders(id) # {} THEN "UserHasOrdersError"
        ELSE IF loaded_role(table, caller, id) = "admin" /\ total_admins <= 1
        THEN "LastAdminError"
        ELSE "None"

\* delete_user that answers 204 to whatever the service returns.
DeleteUserAnswering204(deleted_user) == "204"

\* delete_user: the router's answer to what get_delete_user returned.
delete_user(deleted_user) == IF deleted_user = "None" THEN "404" ELSE "204"

ReleaseUserLocks(t) ==
    [u \in UserIds |-> IF ulock[u] = AdminOwner(t) THEN NoOwner ELSE ulock[u]]

\* The dependencies of an admin endpoint run: the request goes on when the
\* caller is an active admin at this moment.
AdminBegin(t, caller, op, target, role) ==
    LET auth == require_role_admin(users, caller) IN
    /\ utask[t].pc = "idle"
    /\ utask' = [utask EXCEPT ![t] =
            IF auth # "ok" THEN DoneAdminTask(auth)
            ELSE [IdleAdminTask EXCEPT !.pc = "lock", !.op = op,
                        !.caller = caller, !.target = target, !.role = role]]
    /\ UNCHANGED <<users, ulock, tvars, ovars, cache, qvars>>

UpdateRoleBegin(t, caller, username, role) ==
    AdminBegin(t, caller, "role", username, role)

DeleteUserBegin(t, caller, id) ==
    AdminBegin(t, caller, "delete", id, "user")

\* The user's row is key-share locked: an order of the user is inserted
\* and its transaction is not over (ForeignKey("user.id")).
KeyShared(u) ==
    \E t \in OrderTasks : otask[t].pc = "flushed" /\ otask[t].user = u

\* SELECT ... WHERE role = 'admin' FOR UPDATE takes the lock of one more
\* admin row, waiting while another transaction holds it.
LockAdminRow(t, u) ==
    /\ utask[t].pc = "lock" /\ utask[t].op = "role"
    /\ users[u].exists /\ users[u].role = "admin"
    /\ u \notin utask[t].locked
    /\ ulock[u] = NoOwner /\ ~KeyShared(u)
    /\ ulock' = [ulock EXCEPT ![u] = AdminOwner(t)]
    /\ utask' = [utask EXCEPT ![t].locked = @ \cup {u}]
    /\ UNCHANGED <<users, tvars, ovars, cache, qvars>>

\* A role change that goes on to its checks without the admin row locks.
AdminRowsNotAwaited(t) == TRUE

AllAdminRowsLocked(t) ==
    \A u \in UserIds :
        (users[u].exists /\ users[u].role = "admin") => u \in utask[t].locked

\* updated_new_role from get_user to the checks.
UpdateRoleRun(t) ==
    LET a == utask[t]
        out == updated_new_role(users, a.caller, a.target, a.role)
    IN
    /\ a.pc = "lock" /\ a.op = "role"
    /\ AllAdminRowsLocked(t)
    /\ utask' = [utask EXCEPT ![t] =
            IF out = "flush" THEN [a EXCEPT !.pc = "flush"]
            ELSE [a EXCEPT !.pc = "raised",
                           !.status = IF out = "None"
                                      THEN new_role_user(out) ELSE out]]
    /\ UNCHANGED <<users, ulock, tvars, ovars, cache, qvars>>

\* db.flush(): the UPDATE takes the lock of the user's row.
UpdateRoleFlush(t) ==
    LET a == utask[t] IN
    /\ a.pc = "flush"
    /\ ulock[a.target] \in {NoOwner, AdminOwner(t)}
    /\ ulock' = [ulock EXCEPT ![a.target] = AdminOwner(t)]
    /\ utask' = [utask EXCEPT ![t].pc = "return",
                              ![t].status = new_role_user("ReadUser")]
    /\ UNCHANGED <<users, tvars, ovars, cache, qvars>>

\* get_db commits the role.
UpdateRoleCommit(t) ==
    LET a == utask[t] IN
    /\ a.pc = "return" /\ a.op = "role"
    /\ users' = [users EXCEPT ![a.target].role = a.role]
    /\ ulock' = ReleaseUserLocks(t)
    /\ utask' = [utask EXCEPT ![t] = DoneAdminTask(a.status)]
    /\ UNCHANGED <<tvars, ovars, cache, qvars>>

\* SELECT ... WHERE id = :id FOR UPDATE: no row, and get_delete_user
\* returns None; else the lock of the row, waiting while it is held.
DeleteUserLock(t) ==
    LET a == utask[t] IN
    /\ a.pc = "lock" /\ a.op = "delete"
    /\ IF ~users[a.target].exists
       THEN /\ utask' = [utask EXCEPT ![t].pc = "raised",
                                      ![t].status = delete_user("None")]
            /\ UNCHANGED ulock
       ELSE /\ ulock[a.target] = NoOwner /\ ~KeyShared(a.target)
            /\ ulock' = [ulock EXCEPT ![a.target] = AdminOwner(t)]
            /\ utask' = [utask EXCEPT ![t].pc = "check",
                                      ![t].locked = {a.target}]
    /\ UNCHANGED <<users, tvars, ovars, cache, qvars>>

\* get_delete_user from the orders check to its return, the delete flushed.
DeleteUserRun(t) ==
    LET a == utask[t]
        out == get_delete_user(users, a.caller, a.target)
    IN
    /\ a.pc = "check"
    /\ utask' = [utask EXCEPT ![t] =
            IF out = "None" THEN [a EXCEPT !.pc = "return", !.status = out]
            ELSE [a EXCEPT !.pc = "raised", !.status = out]]
    /\ UNCHANGED <<users, ulock, tvars, ovars, cache, qvars>>

\* delete_user answers what the service returned: get_db commits the
\* delete on a 204 and rolls it back on the HTTPException of the 404.
DeleteUserFinish(t) ==
    LET a == utask[t]
        answer == delete_user(a.status)
    IN
    /\ a.pc = "return" /\ a.op = "delete"
    /\ users' = IF answer = "204"
                THEN [users EXCEPT ![a.target] = NoUser]
                ELSE users
    /\ ulock' = ReleaseUserLocks(t)
    /\ utask' = [utask EXCEPT ![t] = DoneAdminTask(answer)]
    /\ UNCHANGED <<tvars, ovars, cache, qvars>>

\* An exception leaves the endpoint: get_db rolls back.
AdminRollback(t) ==
    /\ utask[t].pc = "raised"
    /\ ulock' = ReleaseUserLocks(t)
    /\ utask' = [utask EXCEPT ![t] = DoneAdminTask(utask[t].status)]
    /\ UNCHANGED <<users, tvars, ovars, cache, qvars>>

(***************************************************************************)
(* GET /orders/{order_id}: the order of the caller, or the 404.            *)
(***************************************************************************)
(***************************************************************************)
(* Product reads through the cache, product creates and product deletes    *)
(***************************************************************************)
\* The GET /products/{product_id} requests of a behaviour.
GetTasks == {1, 2}

IdleGetTask ==
    [pc |-> "idle", id |-> 0, seen |-> NoRow, from |-> "none", status |-> 0,
     body |-> NoEntry]

\* A cache read that finds nothing under any key.
CachedProductIgnored(entries, product_id) == NoEntry

\* get_product_by_id: what redis_client.get returns for the product's key.
CachedProduct(entries, product_id) == entries[product_id]

(***************************************************************************)
(* get_product_by_id: the cache read; a hit is returned as it is, and the  *)
(* handler ends there. An error of the read is caught nowhere: 500.        *)
(***************************************************************************)
GetProductBegin(t, id) ==
    /\ gtask[t].pc = "idle"
    /\ LET cached_product == CachedProduct(cache, id)
       IN  gtask' = [gtask EXCEPT ![t] =
                IF cached_product = Unreachable
                THEN [IdleGetTask EXCEPT !.pc = "done", !.id = id,
                        !.from = "ConnectionError", !.status = 500]
                ELSE IF cached_product # NoEntry
                THEN [IdleGetTask EXCEPT !.pc = "done", !.id = id,
                        !.from = "cache", !.status = 200,
                        !.body = cached_product]
                ELSE [IdleGetTask EXCEPT !.pc = "miss", !.id = id]]
    /\ UNCHANGED <<ovars, uvars, cache, rtask, ctask, etask>>

(***************************************************************************)
(* get_product_by_id on a miss: the SELECT by id of the committed row;     *)
(* none gives None, which read_product answers with 404.                   *)
(***************************************************************************)
GetProductSelect(t) ==
    /\ gtask[t].pc = "miss"
    /\ LET product_from_db == products[gtask[t].id]
       IN  gtask' = [gtask EXCEPT ![t] =
                IF product_from_db.exists
                THEN [@ EXCEPT !.pc = "fill", !.seen = product_from_db]
                ELSE [@ EXCEPT !.pc = "done", !.from = "store",
                               !.status = 404]]
    /\ UNCHANGED <<ovars, uvars, cache, rtask, ctask, etask>>

(***************************************************************************)
(* A miss that returns the row read and stores nothing in the cache.       *)
(***************************************************************************)
GetProductFillStoringNothing(t) ==
    /\ gtask[t].pc = "fill"
    /\ gtask' = [gtask EXCEPT ![t] =
            [@ EXCEPT !.pc = "done", !.from = "store", !.status = 200,
                      !.seen = NoRow,
                      !.body = ReadProduct(gtask[t].id, gtask[t].seen)]]
    /\ UNCHANGED <<ovars, uvars, cache, rtask, ctask, etask>>

(***************************************************************************)
(* get_product_by_id on a miss: the schema of the row read is stored       *)
(* under the product's key, and returned. An error of the cache write is   *)
(* caught nowhere: 500.                                                    *)
(***************************************************************************)
GetProductFill(t) ==
    /\ gtask[t].pc = "fill"
    /\ LET product_schema == ReadProduct(gtask[t].id, gtask[t].seen)
       IN  IF cache[gtask[t].id] = Unreachable
           THEN /\ gtask' = [gtask EXCEPT ![t] =
                        [IdleGetTask EXCEPT !.pc = "done", !.id = gtask[t].id,
                            !.from = "ConnectionError", !.status = 500]]
                /\ UNCHANGED cache
           ELSE /\ cache' = [cache EXCEPT ![gtask[t].id] = product_schema]
                /\ gtask' = [gtask EXCEPT ![t] =
                        [@ EXCEPT !.pc = "done", !.from = "store",
                                  !.status = 200, !.seen = NoRow,
                                  !.body = product_schema]]
    /\ UNCHANGED <<ovars, uvars, rtask, ctask, etask>>

\* The entry of a key expires, ten minutes after it was set.
CacheExpire(p) ==
    /\ cache[p] \notin {NoEntry, Unreachable}
    /\ cache' = [cache EXCEPT ![p] = NoEntry]
    /\ UNCHANGED <<ovars, uvars, qvars>>

\* The order items that name the product.
order_items(ordertable, product_id) ==
    UNION {{<<i, k>> : k \in {j \in 1..Len(ordertable[i].items) :
                        ordertable[i].items[j].product_id = product_id}} :
           i \in 1..Len(ordertable)}

\* A delete that does not look at the order items of the product.
DeleteProductIgnoringOrders(table, ordertable, product_id) ==
    IF ~table[product_id].exists THEN "None" ELSE "deleted"

\* get_deleted_product: None for no such product, ProductInUseError for a
\* product some order item names, the delete otherwise.
get_deleted_product(table, ordertable, product_id) ==
    IF ~table[product_id].exists THEN "None"
    ELSE IF order_items(ordertable, product_id) # {} THEN "ProductInUseError"
    ELSE "deleted"

(***************************************************************************)
(* DELETE /products/{product_id}: the SELECT of the product with its order *)
(* items and the two checks. None is answered 404 by delete_product and    *)
(* ProductInUseError 409 by its handler; nothing was written before        *)
(* either, and the session rolls back.                                     *)
(***************************************************************************)
DeleteProductBegin(t, id) ==
    /\ ctask[t].pc = "idle"
    /\ LET outcome == get_deleted_product(products, orders, id)
       IN  ctask' = [ctask EXCEPT ![t] =
                IF outcome = "None"
                THEN [IdleCatalogTask EXCEPT !.pc = "done", !.op = "delete",
                        !.id = id, !.status = 404, !.result = "NotFound"]
                ELSE IF outcome = "ProductInUseError"
                THEN [IdleCatalogTask EXCEPT !.pc = "done", !.op = "delete",
                        !.id = id, !.status = 409, !.result = outcome]
                ELSE [IdleCatalogTask EXCEPT !.pc = "checked", !.op = "delete",
                        !.id = id]]
    /\ UNCHANGED <<ovars, uvars, cache, rtask, gtask, etask>>

\* get_deleted_product: the delete of the cache key, before the row's. An
\* error of the cache delete is caught nowhere: 500, and nothing is deleted.
DeleteProductInvalidate(t) ==
    /\ ctask[t].pc = "checked"
    /\ IF cache[ctask[t].id] = Unreachable
       THEN /\ ctask' = [ctask EXCEPT ![t] =
                    [IdleCatalogTask EXCEPT !.pc = "done", !.op = "delete",
                        !.id = ctask[t].id, !.status = 500,
                        !.result = "ConnectionError"]]
            /\ UNCHANGED cache
       ELSE /\ cache' = [cache EXCEPT ![ctask[t].id] = NoEntry]
            /\ ctask' = [ctask EXCEPT ![t].pc = "invalidated"]
    /\ UNCHANGED <<ovars, uvars, rtask, gtask, etask>>

\* A DELETE of the product row on a table whose order items carry no
\* foreign key to it: the row lock is taken and nothing else is looked at.
DeleteProductFlushUnchecked(t) ==
    /\ ctask[t].pc = "invalidated"
    /\ plock[ctask[t].id] = NoOwner
    /\ plock' = [plock EXCEPT ![ctask[t].id] = CatalogOwner(t)]
    /\ ctask' = [ctask EXCEPT ![t].pc = "flushed"]
    /\ UNCHANGED <<products, orders, otask, ptask, uvars, cache, rtask, gtask,
                   etask>>

\* get_deleted_product: db.delete and flush. The DELETE waits for the row
\* lock and takes it; OrderItem.product_id is a foreign key to product.id
\* with no ON DELETE action, so the store refuses the DELETE of a row that
\* a committed order item names (IntegrityError, caught nowhere: 500, and
\* get_db rolls back).
DeleteProductFlush(t) ==
    /\ ctask[t].pc = "invalidated"
    /\ plock[ctask[t].id] = NoOwner
    /\ IF order_items(orders, ctask[t].id) # {}
       THEN /\ ctask' = [ctask EXCEPT ![t] =
                    [IdleCatalogTask EXCEPT !.pc = "done", !.op = "delete",
                        !.id = ctask[t].id, !.status = 500,
                        !.result = "IntegrityError"]]
            /\ UNCHANGED plock
       ELSE /\ plock' = [plock EXCEPT ![ctask[t].id] = CatalogOwner(t)]
            /\ ctask' = [ctask EXCEPT ![t].pc = "flushed"]
    /\ UNCHANGED <<products, orders, otask, ptask, uvars, cache, rtask, gtask,
                   etask>>

\* delete_product returns, 204, and get_db commits the delete.
DeleteProductCommit(t) ==
    /\ ctask[t].pc = "flushed" /\ ctask[t].op = "delete"
    /\ products' = [products EXCEPT ![ctask[t].id] = NoRow]
    /\ plock' = [p \in ProductIds |->
            IF plock[p] = CatalogOwner(t) THEN NoOwner ELSE plock[p]]
    /\ ctask' = [ctask EXCEPT ![t] =
            [IdleCatalogTask EXCEPT !.pc = "done", !.op = "delete",
                !.id = ctask[t].id, !.status = 204, !.result = "deleted"]]
    /\ UNCHANGED <<orders, otask, ptask, uvars, cache, rtask, gtask, etask>>

\* The bodies of POST /products/: a name in use or a new one, a stock the
\* schema accepts.
CreateProduct ==
    {[exists |-> TRUE, name |-> n, stock |-> IF n = "Laptop" THEN InitStock ELSE -1,
      price |-> NewPrice, available |-> TRUE] : n \in {"Laptop", "Keyboard"}}

\* The id the store gives the next product row: the ids after those of the
\* rows the store starts with, each given once.
NextProductId ==
    IF \E p \in ProductIds \ StockedProducts :
            /\ ~products[p].exists
            /\ \A t \in CatalogTasks : ctask[t].op = "create" => ctask[t].id # p
    THEN CHOOSE p \in ProductIds \ StockedProducts :
            /\ ~products[p].exists
            /\ \A t \in CatalogTasks : ctask[t].op = "create" => ctask[t].id # p
    ELSE 0

(***************************************************************************)
(* get_created_product: db.add and flush; the IntegrityError of the unique *)
(* name is caught and raised as ProductNameAlreadyExistsError, 409.        *)
(***************************************************************************)
CreateProductBegin(t, product) ==
    /\ ctask[t].pc = "idle"
    /\ NextProductId # 0
    /\ ~NameWriteWaits(product.name, 0, CatalogOwner(t))
    /\ ctask' = [ctask EXCEPT ![t] =
            IF NameHolder(products, 0, product.name) # 0
            THEN [IdleCatalogTask EXCEPT !.pc = "done", !.op = "create",
                    !.status = 409,
                    !.result = "ProductNameAlreadyExistsError"]
            ELSE [IdleCatalogTask EXCEPT !.pc = "flushed", !.op = "create",
                    !.id = NextProductId, !.data = product]]
    /\ UNCHANGED <<ovars, uvars, cache, rtask, gtask, etask>>

\* create_product returns, 201, and get_db commits the new row.
CreateProductCommit(t) ==
    /\ ctask[t].pc = "flushed" /\ ctask[t].op = "create"
    /\ products' = [products EXCEPT ![ctask[t].id] = ctask[t].data]
    /\ ctask' = [ctask EXCEPT ![t] =
            [IdleCatalogTask EXCEPT !.pc = "done", !.op = "create",
                !.id = ctask[t].id, !.status = 201, !.result = "created"]]
    /\ UNCHANGED <<orders, plock, otask, ptask, uvars, cache, rtask, gtask,
                   etask>>

(***************************************************************************)
(* Reads of one order by its id                                            *)
(***************************************************************************)
OrderIds == {1, 2, 3}
ReadTasks == {1, 2}

\* An order of user u, as create_order commits it for one unit of product 1.
OrderOf(u) ==
    [user_id |-> u, total_price |-> InitPrice(1),
     items |-> <<[product_id |-> 1, quantity |-> 1,
                  unit_price |-> InitPrice(1)]>>]

\* The select by order_id alone, the owner left to the caller of it.
GetByIdOnly(table, order_id, user_id) ==
    IF order_id \in 1..Len(table) THEN table[order_id] ELSE NoOrder

\* OrderRepository.get_by_id_and_user: the row with this order_id and this
\* user_id, or NoOrder for None.
get_by_id_and_user(table, order_id, user_id) ==
    IF order_id \in 1..Len(table) /\ table[order_id].user_id = user_id
    THEN table[order_id]
    ELSE NoOrder

\* read_order: the answer of the endpoint.
read_order(table, order_id, user_id) ==
    LET order == get_by_id_and_user(table, order_id, user_id)
    IN  IF order = NoOrder
        THEN [status |-> 404,
              detail |-> [text |-> "Order with ID {order_id} not found.",
                          order_id |-> order_id],
              body |-> NoOrder]
        ELSE [status |-> 200,
              detail |-> [text |-> "", order_id |-> 0],
              body |-> order]

IdleReadTask == [pc |-> "idle", caller |-> 0, order_id |-> 0,
                 answer |-> [status |-> 0,
                             detail |-> [text |-> "", order_id |-> 0],
                             body |-> NoOrder]]

\* The request of an authenticated user, answered in one select.
ReadOrder(t, caller, order_id) ==
    /\ rtask[t].pc = "idle"
    /\ rtask' = [rtask EXCEPT ![t] =
            [pc |-> "done", caller |-> caller, order_id |-> order_id,
             answer |-> read_order(orders, order_id, caller)]]
    /\ UNCHANGED <<ovars, uvars, cache, gtask, ctask, etask>>

(***************************************************************************)
(* User creates and user updates                                           *)
(***************************************************************************)
\* The user create and update requests of a behaviour, and the lock owner
\* each is in the store.
EditTasks == {1, 2}
EditOwner(t) == <<"edit", t>>

IdleEditTask ==
    [pc |-> "idle", op |-> "none", id |-> 0, data |-> <<>>, loaded |-> NoUser,
     changed |-> {}, status |-> 0, result |-> "none"]

\* The unique index on users.username: the id of a committed row other
\* than `id` that holds `username`, or 0.
UsernameHolder(table, id, username) ==
    IF \E q \in UserIds \ {id} : table[q].exists /\ table[q].username = username
    THEN CHOOSE q \in UserIds \ {id} :
            table[q].exists /\ table[q].username = username
    ELSE 0

\* A write of `username` by the transaction `me` waits while another open
\* transaction holds an uncommitted write of the same username, or has
\* written the row that holds it.
UsernameWriteWaits(username, id, me) ==
    \/ \E t \in EditTasks :
          /\ me # EditOwner(t)
          /\ etask[t].pc = "flushed" /\ "username" \in etask[t].changed
          /\ etask[t].data.username = username
    \/ LET q == UsernameHolder(users, id, username)
       IN  q # 0 /\ ulock[q] \notin {NoOwner, me}

\* The bodies of POST /users/: a username in use or a new one.
CreateUser == {[username |-> n] : n \in {2, 3}}

\* The bodies of PATCH /users/{user_id}: a username another user holds, a
\* username none holds, the availability.
UpdateUser ==
    { [f \in {"username"} |-> 2],
      [f \in {"username"} |-> 3],
      [f \in {"available"} |-> FALSE] }

\* The fields CreateUser and UpdateUser declare; neither declares role.
UserSchemaFields == {"username", "password", "available"}

\* A schema that keeps the fields it does not declare.
ValidateKeepingExtraFields(body) == body

\* CreateUser / UpdateUser built from a JSON body: pydantic ignores the
\* fields the schema does not declare, so model_dump never names them.
ValidateUserBody(body) ==
    [f \in (DOMAIN body) \cap UserSchemaFields |-> body[f]]

\* JSON bodies sent to POST /users/ and PATCH /users/{user_id}: the bodies
\* of the schema, and bodies that ask for the role admin as well.
AskingForAdmin(bodies) ==
    bodies \cup {[f \in DOMAIN b \cup {"role"} |->
                    IF f = "role" THEN "admin" ELSE b[f]] : b \in bodies}

\* The id the store gives the next user row: the ids after those of the
\* accounts the store starts with, each given once.
NextUserId ==
    IF \E u \in UserIds \ Accounts :
            /\ ~users[u].exists
            /\ \A t \in EditTasks : etask[t].op = "create" => etask[t].id # u
    THEN CHOOSE u \in UserIds \ Accounts :
            /\ ~users[u].exists
            /\ \A t \in EditTasks : etask[t].op = "create" => etask[t].id # u
    ELSE 0

(***************************************************************************)
(* get_create_user: db.add and flush; the IntegrityError of the unique     *)
(* username is caught and raised as UsernameAlreadyExistsError, 409.       *)
(***************************************************************************)
CreateUserBegin(t, user) ==
    /\ etask[t].pc = "idle"
    /\ NextUserId # 0
    /\ ~UsernameWriteWaits(user.username, 0, EditOwner(t))
    /\ etask' = [etask EXCEPT ![t] =
            IF UsernameHolder(users, 0, user.username) # 0
            THEN [IdleEditTask EXCEPT !.pc = "done", !.op = "create",
                    !.status = 409, !.result = "UsernameAlreadyExistsError"]
            ELSE [IdleEditTask EXCEPT !.pc = "flushed", !.op = "create",
                    !.id = NextUserId, !.data = user,
                    !.changed = {"username"}]]
    /\ UNCHANGED <<ovars, uvars, cache, rtask, gtask, ctask>>

\* create_user returns, 201, and get_db commits the new row: UserModel is
\* built from the dumped schema, and a column the dump does not name gets
\* its default, which for role is UserRole.user.
CreateUserCommit(t) ==
    /\ etask[t].pc = "flushed" /\ etask[t].op = "create"
    /\ users' = [users EXCEPT ![etask[t].id] =
                    Account(etask[t].data.username,
                            IF "role" \in DOMAIN etask[t].data
                            THEN etask[t].data.role ELSE "user")]
    /\ etask' = [etask EXCEPT ![t] =
            [IdleEditTask EXCEPT !.pc = "done", !.op = "create",
                !.id = etask[t].id, !.status = 201, !.result = "created"]]
    /\ UNCHANGED <<ovars, tvars, avars, cache, rtask, gtask, ctask>>

(***************************************************************************)
(* get_updated_user: SELECT the user by id, without a lock; None is        *)
(* answered 404 by update_user.                                            *)
(***************************************************************************)
UpdateUserBegin(t, id, user) ==
    /\ etask[t].pc = "idle"
    /\ etask' = [etask EXCEPT ![t] =
            IF users[id].exists
            THEN [IdleEditTask EXCEPT !.pc = "loaded", !.op = "update",
                    !.id = id, !.data = user, !.loaded = users[id]]
            ELSE [IdleEditTask EXCEPT !.pc = "done", !.op = "update",
                    !.status = 404, !.result = "NotFound"]]
    /\ UNCHANGED <<ovars, uvars, cache, rtask, gtask, ctask>>

\* What the flush of get_updated_user raises, which nothing in the handler
\* catches: the UPDATE of a row deleted since it was loaded, or of a
\* username another row holds.
UpdateUserFlushError(table, id, changed, data) ==
    IF ~table[id].exists THEN "StaleDataError"
    ELSE IF "username" \in changed
            /\ UsernameHolder(table, id, data.username) # 0
         THEN "IntegrityError"
         ELSE "none"

(***************************************************************************)
(* get_updated_user: setattr for each supplied field, then flush: the      *)
(* UPDATE of the changed columns takes the row lock (and waits for it).    *)
(* An error of the flush leaves the handler as it is: the answer is 500    *)
(* and the session rolls back.                                             *)
(***************************************************************************)
UpdateUserFlush(t) ==
    /\ etask[t].pc = "loaded"
    /\ LET id == etask[t].id
           changed == ChangedFields(etask[t].data, etask[t].loaded)
           error == UpdateUserFlushError(users, id, changed, etask[t].data)
       IN  /\ changed # {} => ulock[id] = NoOwner
           /\ "username" \in changed =>
                ~UsernameWriteWaits(etask[t].data.username, id, EditOwner(t))
           /\ IF error # "none"
              THEN /\ etask' = [etask EXCEPT ![t] =
                        [IdleEditTask EXCEPT !.pc = "done", !.op = "update",
                            !.id = id, !.status = 500, !.result = error]]
                   /\ UNCHANGED ulock
              ELSE /\ ulock' = IF changed # {}
                               THEN [ulock EXCEPT ![id] = EditOwner(t)]
                               ELSE ulock
                   /\ etask' = [etask EXCEPT ![t].pc = "flushed",
                                             ![t].changed = changed]
    /\ UNCHANGED <<ovars, users, tvars, utask, cache, rtask, gtask, ctask>>

\* update_user returns, 200, and get_db commits the changed columns.
UpdateUserCommit(t) ==
    /\ etask[t].pc = "flushed" /\ etask[t].op = "update"
    /\ users' = [users EXCEPT ![etask[t].id] =
            [f \in DOMAIN @ |->
                IF f \in etask[t].changed THEN etask[t].data[f] ELSE @[f]]]
    /\ ulock' = [u \in UserIds |->
            IF ulock[u] = EditOwner(t) THEN NoOwner ELSE ulock[u]]
    /\ etask' = [etask EXCEPT ![t] =
            [IdleEditTask EXCEPT !.pc = "done", !.op = "update",
                !.id = etask[t].id, !.status = 200, !.result = "updated"]]
    /\ UNCHANGED <<ovars, tvars, utask, cache, rtask, gtask, ctask>>

\* An empty cache and no read, catalog or user edit request in flight.
NoCacheNoRequest ==
    /\ cache = [p \in ProductIds |-> NoEntry]
    /\ rtask = [t \in ReadTasks |-> IdleReadTask]
    /\ gtask = [t \in GetTasks |-> IdleGetTask]
    /\ ctask = [t \in CatalogTasks |-> IdleCatalogTask]
    /\ etask = [t \in EditTasks |-> IdleEditTask]

(***************************************************************************)
(* The store with its product rows, no order, no request in flight.        *)
(***************************************************************************)
InitOrders ==
    /\ products = [p \in ProductIds |->
            IF p \in StockedProducts
            THEN [exists |-> TRUE, name |-> InitName(p), stock |-> InitStock,
                  price |-> InitPrice(p), available |-> TRUE]
            ELSE NoRow]
    /\ orders = <<>>
    /\ plock = [p \in ProductIds |-> NoOwner]
    /\ otask = [t \in OrderTasks |-> IdleOrderTask]
    /\ ptask = IdleProductTask
    /\ users = [u \in UserIds |->
            IF u \in Accounts
            THEN Account(u, IF u = 1 THEN "admin" ELSE "user")
            ELSE NoUser]
    /\ atask = [t \in AuthTasks |-> IdleAuthTask]
    /\ jti = 1
    /\ issued = {}
    /\ session = [u \in UserIds |-> "none"]
    /\ ulock = [u \in UserIds |-> NoOwner]
    /\ utask = [t \in AdminTasks |-> IdleAdminTask]
    /\ NoCacheNoRequest

OrderStep(t) ==
    \/ \E items \in OrderCreate : CreateOrderBegin(t, items, Customer(t))
    \/ \E p \in ProductIds : LockProductRow(t, p)
    \/ CreateOrderRun(t)
    \/ CreateOrderCommit(t)
    \/ CreateOrderRollback(t)

\* The requests of two items that name both stocked products, in either
\* order: any two of them overlap in two products.
OverlappingOrders ==
    {items \in OrderCreate :
        Len(items) = 2 /\ RequestedIds(items) = StockedProducts}

\* Request t waits in its lock query for a row that request x holds.
WaitsFor(t, x) ==
    /\ otask[t].pc = "lock"
    /\ \E p \in RequestedIds(otask[t].items) \ otask[t].locked :
            products[p].exists /\ plock[p] = OrderOwner(x)

(***************************************************************************)
(* The store's deadlock detector: of two transactions that each wait in    *)
(* the lock query for a row the other holds, one is aborted; the statement *)
(* raises, the exception leaves create_order as it is, and get_db rolls    *)
(* back.                                                                   *)
(***************************************************************************)
DeadlockAbort(t) ==
    /\ \E x \in OrderTasks \ {t} : WaitsFor(t, x) /\ WaitsFor(x, t)
    /\ otask' = [otask EXCEPT ![t].pc = "raised",
                              ![t].result = "DeadlockDetectedError"]
    /\ UNCHANGED <<products, orders, plock, ptask, uvars, cache, qvars>>

\* The steps of a request after it has arrived.
OrderProgress(t) ==
    \/ \E p \in ProductIds : LockProductRow(t, p)
    \/ CreateOrderRun(t)
    \/ CreateOrderCommit(t)
    \/ CreateOrderRollback(t)
    \/ DeadlockAbort(t)

NextOverlapping ==
    \E t \in OrderTasks :
        \/ \E items \in OverlappingOrders : CreateOrderBegin(t, items, Customer(t))
        \/ OrderProgress(t)

\* Orders that overlap in two products, each request scheduled fairly: a
\* request that can take a step eventually takes one.
SpecOverlapping ==
    /\ InitOrders
    /\ [][NextOverlapping]_vars
    /\ \A t \in OrderTasks : WF_vars(OrderProgress(t))

(***************************************************************************)
(* An exception that no check of create_order raises leaves the handler    *)
(* after rows were locked: the lock query is interrupted, or the flush of   *)
(* order_repo.add, the refresh or the response validation fails after the  *)
(* stocks were decremented in memory and flushed. get_db then rolls back.   *)
(***************************************************************************)
CreateOrderAbort(t) ==
    /\ otask[t].pc \in {"lock", "flushed"}
    /\ otask[t].locked # {}
    /\ otask' = [otask EXCEPT
            ![t].pc = "raised",
            ![t].result = IF otask[t].pc = "flushed" THEN "AbortedAfterFlush"
                          ELSE "AbortedInLockQuery"]
    /\ UNCHANGED <<products, orders, plock, ptask, uvars, cache, qvars>>

\* The requests of one or two items of products the store holds.
StockedOrders ==
    {items \in OrderCreate :
        items # <<>> /\ RequestedIds(items) \subseteq StockedProducts}

NextAborts ==
    \E t \in OrderTasks :
        \/ \E items \in StockedOrders : CreateOrderBegin(t, items, Customer(t))
        \/ \E p \in ProductIds : LockProductRow(t, p)
        \/ CreateOrderRun(t)
        \/ CreateOrderCommit(t)
        \/ CreateOrderRollback(t)
        \/ CreateOrderAbort(t)

\* Orders of which any may fail after it has locked its rows.
SpecAborts == InitOrders /\ [][NextAborts]_vars

ProductUpdateStep(menu) ==
    \/ \E id \in ProductIds, data \in menu : UpdateProductBegin(id, data)
    \/ UpdateProductFlush
    \/ UpdateProductCommit

NextOrders ==
    \/ \E t \in OrderTasks : OrderStep(t)
    \/ ProductUpdateStep(PriceUpdates)

\* Orders against products whose stock only orders change.
SpecOrders == InitOrders /\ [][NextOrders]_vars

NextCatalog ==
    \/ \E t \in OrderTasks : OrderStep(t)
    \/ ProductUpdateStep(PriceUpdates \cup StockUpdates)

\* Orders beside product updates of every field.
SpecCatalog == InitOrders /\ [][NextCatalog]_vars

AuthStep(t) ==
    \/ \E username \in UserIds, password \in PasswordOf :
            LoginBegin(t, username, password)
    \/ \E token \in Presentable : RefreshBegin(t, token)
    \/ \E token \in Presentable : LogoutBegin(t, token)
    \/ \E token \in Presentable : ReadUsersMe(t, token)
    \/ AuthCommit(t)

NextAuth == \E t \in AuthTasks : AuthStep(t)

\* Logins, refreshes, logouts and reads of /users/me, interleaved.
SpecAuth == InitOrders /\ [][NextAuth]_vars

\* Two accounts, the first an admin, the second an admin or not and with
\* an order or not; no request in flight.
InitUsers ==
    /\ products = [p \in ProductIds |->
            IF p \in StockedProducts
            THEN [exists |-> TRUE, name |-> InitName(p), stock |-> InitStock,
                  price |-> InitPrice(p), available |-> TRUE]
            ELSE NoRow]
    /\ orders \in {<<>>, <<[user_id |-> 2, total_price |-> InitPrice(1),
                  items |-> <<[product_id |-> 1, quantity |-> 1,
                               unit_price |-> InitPrice(1)]>>]>>}
    /\ plock = [p \in ProductIds |-> NoOwner]
    /\ otask = [t \in OrderTasks |-> IdleOrderTask]
    /\ ptask = IdleProductTask
    /\ users \in {[u \in UserIds |->
                    IF u = 1 THEN Account(1, "admin")
                    ELSE IF u = 2 THEN Account(2, r) ELSE NoUser] :
                 r \in {"admin", "user"}}
    /\ atask = [t \in AuthTasks |-> IdleAuthTask]
    /\ jti = 1
    /\ issued = {}
    /\ session = [u \in UserIds |-> "none"]
    /\ ulock = [u \in UserIds |-> NoOwner]
    /\ utask = [t \in AdminTasks |-> IdleAdminTask]
    /\ NoCacheNoRequest

AdminStep(t) ==
    \/ \E caller \in Accounts, username \in UserIds, role \in {"admin", "user"} :
            UpdateRoleBegin(t, caller, username, role)
    \/ \E caller \in Accounts, id \in UserIds : DeleteUserBegin(t, caller, id)
    \/ \E u \in UserIds : LockAdminRow(t, u)
    \/ UpdateRoleRun(t)
    \/ UpdateRoleFlush(t)
    \/ UpdateRoleCommit(t)
    \/ DeleteUserLock(t)
    \/ DeleteUserRun(t)
    \/ DeleteUserFinish(t)
    \/ AdminRollback(t)

NextUsers == \E t \in AdminTasks : AdminStep(t)

\* Role changes and deletes of users by administrators, interleaved.
SpecUsers == InitUsers /\ [][NextUsers]_vars

\* The order tables a store can hold after up to two orders of one unit of
\* product 1, each by one of the accounts.
OrderTables ==
    {<<>>} \cup {<<OrderOf(a)>> : a \in Accounts}
           \cup {<<OrderOf(a), OrderOf(b)>> : a \in Accounts, b \in Accounts}

\* A store with up to two orders, and no request in flight.
InitReads ==
    /\ orders \in OrderTables
    /\ products = [p \in ProductIds |->
            IF p \in StockedProducts
            THEN [exists |-> TRUE, name |-> InitName(p),
                  stock |-> IF p = 1 THEN InitStock - Len(orders) ELSE InitStock,
                  price |-> InitPrice(p), available |-> TRUE]
            ELSE NoRow]
    /\ plock = [p \in ProductIds |-> NoOwner]
    /\ otask = [t \in OrderTasks |-> IdleOrderTask]
    /\ ptask = IdleProductTask
    /\ users = [u \in UserIds |->
            IF u \in Accounts
            THEN Account(u, IF u = 1 THEN "admin" ELSE "user")
            ELSE NoUser]
    /\ atask = [t \in AuthTasks |-> IdleAuthTask]
    /\ jti = 1
    /\ issued = {}
    /\ session = [u \in UserIds |-> "none"]
    /\ ulock = [u \in UserIds |-> NoOwner]
    /\ utask = [t \in AdminTasks |-> IdleAdminTask]
    /\ NoCacheNoRequest

NextReads ==
    \E t \in ReadTasks, caller \in Accounts, order_id \in OrderIds :
        ReadOrder(t, caller, order_id)

\* Reads of orders by id, by each account, of each stored and unstored id.
SpecReads == InitReads /\ [][NextReads]_vars

\* The bodies of PATCH /products/{product_id}: a price, the availability,
\* a stock, a name another product holds and a name none holds.
ProductEdits ==
    { [f \in {"price"} |-> NewPrice],
      [f \in {"available"} |-> FALSE],
      [f \in {"stock"} |-> NewStock],
      [f \in {"stock"} |-> -1],
      [f \in {"name"} |-> "Mouse"],
      [f \in {"name"} |-> "Keyboard"] }

\* The store with its product rows, product 1 in an order or in none, an
\* empty cache and no request in flight.
InitProducts ==
    /\ orders \in {<<>>, <<OrderOf(2)>>}
    /\ products = [p \in ProductIds |->
            IF p \in StockedProducts
            THEN [exists |-> TRUE, name |-> InitName(p),
                  stock |-> IF p = 1 THEN InitStock - Len(orders) ELSE InitStock,
                  price |-> InitPrice(p), available |-> TRUE]
            ELSE NoRow]
    /\ plock = [p \in ProductIds |-> NoOwner]
    /\ otask = [t \in OrderTasks |-> IdleOrderTask]
    /\ ptask = IdleProductTask
    /\ users = [u \in UserIds |->
            IF u \in Accounts
            THEN Account(u, IF u = 1 THEN "admin" ELSE "user")
            ELSE NoUser]
    /\ atask = [t \in AuthTasks |-> IdleAuthTask]
    /\ jti = 1
    /\ issued = {}
    /\ session = [u \in UserIds |-> "none"]
    /\ ulock = [u \in UserIds |-> NoOwner]
    /\ utask = [t \in AdminTasks |-> IdleAdminTask]
    /\ NoCacheNoRequest

\* No product request is in flight.
NoProductRequest ==
    /\ ptask.pc \in {"idle", "done"}
    /\ \A t \in GetTasks : gtask[t].pc \in {"idle", "done"}
    /\ \A t \in CatalogTasks : ctask[t].pc \in {"idle", "done"}

\* A product request arrives.
ProductBegin ==
    \/ \E id \in ProductIds, data \in ProductEdits : UpdateProductBegin(id, data)
    \/ \E t \in GetTasks, id \in ProductIds : GetProductBegin(t, id)
    \/ \E t \in CatalogTasks, id \in ProductIds : DeleteProductBegin(t, id)
    \/ \E t \in CatalogTasks, product \in CreateProduct :
            CreateProductBegin(t, product)

\* A product request in flight takes its next step, or a cache entry expires.
ProductContinue ==
    \/ UpdateProductFlush
    \/ UpdateProductCommit
    \/ \E t \in GetTasks : GetProductSelect(t)
    \/ \E t \in GetTasks : GetProductFill(t)
    \/ \E t \in CatalogTasks : DeleteProductInvalidate(t)
    \/ \E t \in CatalogTasks : DeleteProductFlush(t)
    \/ \E t \in CatalogTasks : DeleteProductCommit(t)
    \/ \E t \in CatalogTasks : CreateProductCommit(t)
    \/ \E p \in ProductIds : CacheExpire(p)

NextProducts == ProductBegin \/ ProductContinue

\* Product reads, updates, creates and deletes, interleaved.
SpecProducts == InitProducts /\ [][NextProducts]_vars

\* No request of any kind is in flight.
NoRequestInFlight ==
    /\ NoProductRequest
    /\ \A t \in OrderTasks : otask[t].pc \in {"idle", "done"}

\* The requests of one item of a product the store holds.
SingleItemOrders == {items \in StockedOrders : Len(items) = 1}

\* One request at a time: a product read, update or delete or an order
\* arrives when no request is in flight, and runs to its end.
NextOneByOne ==
    \/ \E id \in ProductIds, data \in StockUpdates :
            NoRequestInFlight /\ UpdateProductBegin(id, data)
    \/ \E t \in GetTasks, id \in ProductIds :
            NoRequestInFlight /\ GetProductBegin(t, id)
    \/ \E t \in CatalogTasks, id \in ProductIds :
            NoRequestInFlight /\ DeleteProductBegin(t, id)
    \/ \E t \in OrderTasks, items \in SingleItemOrders :
            NoRequestInFlight /\ CreateOrderBegin(t, items, Customer(t))
    \/ UpdateProductFlush
    \/ UpdateProductCommit
    \/ \E t \in GetTasks : GetProductSelect(t)
    \/ \E t \in GetTasks : GetProductFill(t)
    \/ \E t \in CatalogTasks : DeleteProductInvalidate(t)
    \/ \E t \in CatalogTasks : DeleteProductFlush(t)
    \/ \E t \in CatalogTasks : DeleteProductCommit(t)
    \/ \E t \in OrderTasks, p \in ProductIds : LockProductRow(t, p)
    \/ \E t \in OrderTasks : CreateOrderRun(t)
    \/ \E t \in OrderTasks : CreateOrderCommit(t)
    \/ \E t \in OrderTasks : CreateOrderRollback(t)

\* Product reads, updates and deletes and orders, never two at once.
SpecOneByOne == InitProducts /\ [][NextOneByOne]_vars

\* The DELETE /users/{user_id} requests beside the orders.
RemovalTasks == {1}

\* Orders beside deletes of products and deletes of users.
NextIntegrity ==
    \/ \E t \in OrderTasks, items \in SingleItemOrders :
            CreateOrderBegin(t, items, Customer(t))
    \/ \E t \in OrderTasks, p \in ProductIds : LockProductRow(t, p)
    \/ \E t \in OrderTasks : CreateOrderRun(t)
    \/ \E t \in OrderTasks : CreateOrderCommit(t)
    \/ \E t \in OrderTasks : CreateOrderRollback(t)
    \/ \E t \in CatalogTasks, id \in ProductIds : DeleteProductBegin(t, id)
    \/ \E t \in CatalogTasks : DeleteProductInvalidate(t)
    \/ \E t \in CatalogTasks : DeleteProductFlush(t)
    \/ \E t \in CatalogTasks : DeleteProductCommit(t)
    \/ \E t \in RemovalTasks, caller \in Accounts, id \in UserIds :
            DeleteUserBegin(t, caller, id)
    \/ \E t \in RemovalTasks : DeleteUserLock(t)
    \/ \E t \in RemovalTasks : DeleteUserRun(t)
    \/ \E t \in RemovalTasks : DeleteUserFinish(t)
    \/ \E t \in RemovalTasks : AdminRollback(t)

\* create_order, product delete and user delete, interleaved.
SpecIntegrity == InitUsers /\ [][NextIntegrity]_vars

\* The store of SpecProducts with a cache that is empty or cannot be
\* reached, and no request in flight.
InitCacheDown ==
    /\ orders \in {<<>>, <<OrderOf(2)>>}
    /\ products = [p \in ProductIds |->
            IF p \in StockedProducts
            THEN [exists |-> TRUE, name |-> InitName(p),
                  stock |-> IF p = 1 THEN InitStock - Len(orders) ELSE InitStock,
                  price |-> InitPrice(p), available |-> TRUE]
            ELSE NoRow]
    /\ plock = [p \in ProductIds |-> NoOwner]
    /\ otask = [t \in OrderTasks |-> IdleOrderTask]
    /\ ptask = IdleProductTask
    /\ users = [u \in UserIds |->
            IF u \in Accounts
            THEN Account(u, IF u = 1 THEN "admin" ELSE "user")
            ELSE NoUser]
    /\ atask = [t \in AuthTasks |-> IdleAuthTask]
    /\ jti = 1
    /\ issued = {}
    /\ session = [u \in UserIds |-> "none"]
    /\ ulock = [u \in UserIds |-> NoOwner]
    /\ utask = [t \in AdminTasks |-> IdleAdminTask]
    /\ cache \in {[p \in ProductIds |-> NoEntry],
                  [p \in ProductIds |-> Unreachable]}
    /\ rtask = [t \in ReadTasks |-> IdleReadTask]
    /\ gtask = [t \in GetTasks |-> IdleGetTask]
    /\ ctask = [t \in CatalogTasks |-> IdleCatalogTask]
    /\ etask = [t \in EditTasks |-> IdleEditTask]

\* The product requests with a cache that works and with one that is down.
SpecCacheDown == InitCacheDown /\ [][NextProducts]_vars

NextProductsAlone == (NoProductRequest /\ ProductBegin) \/ ProductContinue

\* The same requests, each run alone: none arrives while another is in
\* flight.
SpecProductsAlone == InitProducts /\ [][NextProductsAlone]_vars

EditStep(t) ==
    \/ \E user \in CreateUser : CreateUserBegin(t, user)
    \/ CreateUserCommit(t)
    \/ \E id \in UserIds, user \in UpdateUser : UpdateUserBegin(t, id, user)
    \/ UpdateUserFlush(t)
    \/ UpdateUserCommit(t)

NextAccounts == \E t \in EditTasks : EditStep(t)

\* Registrations and user updates, interleaved.
SpecAccounts == InitOrders /\ [][NextAccounts]_vars

\* The requests that present a token in a behaviour of SpecTokens.
TokenTasks == {1, 2}

\* The tokens the logins of the two accounts returned.
IssuedAtLogin ==
    {create_access_token(u, 2 * u - 1) : u \in Accounts}
        \cup {create_refresh_token(u, 2 * u) : u \in Accounts}

\* Both accounts have logged in: their access tokens and refresh tokens are
\* issued, and the hash of each refresh token is stored.
InitTokens ==
    /\ products = [p \in ProductIds |->
            IF p \in StockedProducts
            THEN [exists |-> TRUE, name |-> InitName(p), stock |-> InitStock,
                  price |-> InitPrice(p), available |-> TRUE]
            ELSE NoRow]
    /\ orders = <<>>
    /\ plock = [p \in ProductIds |-> NoOwner]
    /\ otask = [t \in OrderTasks |-> IdleOrderTask]
    /\ ptask = IdleProductTask
    /\ users = [u \in UserIds |->
            IF u \in Accounts
            THEN [Account(u, IF u = 1 THEN "admin" ELSE "user")
                    EXCEPT !.hashed_refresh_token =
                        get_password_hash(create_refresh_token(u, 2 * u))]
            ELSE NoUser]
    /\ atask = [t \in AuthTasks |-> IdleAuthTask]
    /\ jti = 2 * Cardinality(Accounts) + 1
    /\ issued = IssuedAtLogin
    /\ session = [u \in UserIds |-> IF u \in Accounts THEN "in" ELSE "none"]
    /\ ulock = [u \in UserIds |-> NoOwner]
    /\ utask = [t \in AdminTasks |-> IdleAdminTask]
    /\ NoCacheNoRequest

\* What a client can send as a token: a token it was handed, a token of a
\* user the store no longer has, a token without a subject, each as it is
\* or with one thing wrong, or a string that is no token.
Probes ==
    LET signed == issued \cup
                  {create_access_token(u, 0) : u \in (UserIds \ Accounts) \cup {0}}
                  \cup
                  {create_refresh_token(u, 0) : u \in (UserIds \ Accounts) \cup {0}}
    IN  signed \cup {Garbage}
               \cup {Tampered(token, fault) : token \in signed, fault \in TokenFaults}

TokenStep(t) ==
    \/ \E token \in Probes : RefreshBegin(t, token)
    \/ \E token \in Probes : LogoutBegin(t, token)
    \/ \E token \in Probes : ReadUsersMe(t, token)
    \/ AuthCommit(t)

NextTokens == \E t \in TokenTasks : TokenStep(t)

\* Tokens of every kind presented to /users/me, /users/logout and
\* /users/token/refresh.
SpecTokens == InitTokens /\ [][NextTokens]_vars

\* PATCH /users/{user_id} with available false, by the one admin request
\* of SpecInactive.
Deactivate ==
    \/ \E id \in Accounts :
            UpdateUserBegin(1, id, [f \in {"available"} |-> FALSE])
    \/ UpdateUserFlush(1)
    \/ UpdateUserCommit(1)

InactiveStep(t) ==
    \/ \E token \in issued : RefreshBegin(t, token)
    \/ \E token \in issued : LogoutBegin(t, token)
    \/ \E token \in issued : ReadUsersMe(t, token)
    \/ AuthCommit(t)

NextInactive == Deactivate \/ \E t \in TokenTasks : InactiveStep(t)

\* A logged-in account is deactivated while its tokens are in use.
SpecInactive == InitTokens /\ [][NextInactive]_vars

NextLockedOut ==
    \/ NextInactive
    \/ \E t \in TokenTasks, username \in Accounts :
            LoginBegin(t, username, Password(username))

\* An account is deactivated and then logs in or refreshes its tokens.
SpecLockedOut == InitTokens /\ [][NextLockedOut]_vars

(***************************************************************************)
(* The routes that declare admin_user: Admin_user. FastAPI resolves the    *)
(* dependency before it calls the handler, in the request's transaction.   *)
(***************************************************************************)
AdminRoutes ==
    {"create_product", "update_product", "delete_product",
     "read_all_users", "read_user", "update_user", "delete", "role"}

\* The requests to admin routes in a behaviour of SpecAdminRoutes.
RouteTasks == {1, 2}

\* Admin_user for the token a request carries: get_current_user, then
\* get_current_active_user, then the role check.
AdminUserAnyRole(table, token) ==
    LET caller == get_current_user(table, token)
    IN  IF caller = 0 THEN "401"
        ELSE IF ~table[caller].available THEN "401"
        ELSE "ok"

Admin_user(table, token) ==
    LET caller == get_current_user(table, token)
    IN  IF caller = 0 THEN "401" ELSE require_role_admin(table, caller)

\* A request to an admin route: refused by the dependency, or admitted to
\* the handler (for a role change and a user delete, to the first lock).
AdminRouteBegin(t, token, op, target, role) ==
    LET caller == get_current_user(users, token)
        auth == Admin_user(users, token)
    IN
    /\ utask[t].pc = "idle"
    /\ utask' = [utask EXCEPT ![t] =
            IF auth # "ok"
            THEN [IdleAdminTask EXCEPT !.pc = "done", !.op = op,
                        !.caller = caller, !.status = auth]
            ELSE [IdleAdminTask EXCEPT
                        !.pc = IF op \in {"role", "delete"} THEN "lock"
                               ELSE "admitted",
                        !.op = op, !.caller = caller, !.target = target,
                        !.role = role]]
    /\ UNCHANGED <<users, ulock, tvars, ovars, cache, qvars>>

Admitted(t, op) == utask[t].pc = "admitted" /\ utask[t].op = op

\* read_user: the row of the id, or the 404; read_all_users: the page.
ReadUserRun(t) ==
    /\ utask[t].pc = "admitted"
    /\ utask[t].op \in {"read_user", "read_all_users"}
    /\ utask' = [utask EXCEPT ![t] =
            DoneAdminTask(IF utask[t].op = "read_user"
                             /\ ~users[utask[t].target].exists
                          THEN "404" ELSE "200")]
    /\ UNCHANGED <<users, ulock, tvars, ovars, cache, qvars>>

\* The targets and roles a request to a route names.
RouteArguments(op) ==
    IF op = "role" THEN UserIds \X {"admin", "user"}
    ELSE IF op \in {"delete", "read_user"} THEN UserIds \X {"user"}
    ELSE {<<0, "user">>}

\* What the requests to admin routes carry: the access token of the admin,
\* of the other account, a refresh token, or no token at all.
RouteTokens ==
    {create_access_token(u, 2 * u - 1) : u \in Accounts}
        \cup {create_refresh_token(1, 2), Garbage}

\* The handler of an admitted request starts, in the slot of its request.
HandlerBegin(t) ==
    \/ /\ t \in CatalogTasks /\ Admitted(t, "create_product")
       /\ \E product \in CreateProduct : CreateProductBegin(t, product)
    \/ /\ t \in CatalogTasks /\ Admitted(t, "delete_product")
       /\ \E id \in ProductIds : DeleteProductBegin(t, id)
    \/ /\ t = 1 /\ Admitted(t, "update_product")
       /\ \E id \in ProductIds, data \in ProductEdits : UpdateProductBegin(id, data)
    \/ /\ t \in EditTasks /\ Admitted(t, "update_user")
       /\ \E id \in UserIds, user \in UpdateUser : UpdateUserBegin(t, id, user)

RouteStep(t) ==
    \/ \E token \in RouteTokens, op \in AdminRoutes :
            \E arg \in RouteArguments(op) :
                AdminRouteBegin(t, token, op, arg[1], arg[2])
    \/ HandlerBegin(t)
    \/ ReadUserRun(t)
    \/ \E u \in UserIds : LockAdminRow(t, u)
    \/ UpdateRoleRun(t)
    \/ UpdateRoleFlush(t)
    \/ UpdateRoleCommit(t)
    \/ DeleteUserLock(t)
    \/ DeleteUserRun(t)
    \/ DeleteUserFinish(t)
    \/ AdminRollback(t)
    \/ t \in EditTasks /\ (UpdateUserFlush(t) \/ UpdateUserCommit(t))
    \/ t \in CatalogTasks /\ \/ DeleteProductInvalidate(t)
                             \/ DeleteProductFlush(t)
                             \/ DeleteProductCommit(t)
                             \/ CreateProductCommit(t)
    \/ t = 1 /\ (UpdateProductFlush \/ UpdateProductCommit)
    \/ t = 1 /\ \/ \E id \in StockedProducts : GetProductBegin(t, id)
                \/ GetProductSelect(t)
                \/ GetProductFill(t)

NextAdminRoutes == \E t \in RouteTasks : RouteStep(t)

\* Requests to the admin routes by the admin, by the other account and
\* without a valid access token, with product reads that fill the cache.
SpecAdminRoutes == InitTokens /\ [][NextAdminRoutes]_vars

\* Both accounts are administrators and have logged in.
InitTwoAdmins ==
    /\ products = [p \in ProductIds |->
            IF p \in StockedProducts
            THEN [exists |-> TRUE, name |-> InitName(p), stock |-> InitStock,
                  price |-> InitPrice(p), available |-> TRUE]
            ELSE NoRow]
    /\ orders = <<>>
    /\ plock = [p \in ProductIds |-> NoOwner]
    /\ otask = [t \in OrderTasks |-> IdleOrderTask]
    /\ ptask = IdleProductTask
    /\ users = [u \in UserIds |->
            IF u \in Accounts
            THEN [Account(u, "admin")
                    EXCEPT !.hashed_refresh_token =
                        get_password_hash(create_refresh_token(u, 2 * u))]
            ELSE NoUser]
    /\ atask = [t \in AuthTasks |-> IdleAuthTask]
    /\ jti = 2 * Cardinality(Accounts) + 1
    /\ issued = IssuedAtLogin
    /\ session = [u \in UserIds |-> IF u \in Accounts THEN "in" ELSE "none"]
    /\ ulock = [u \in UserIds |-> NoOwner]
    /\ utask = [t \in AdminTasks |-> IdleAdminTask]
    /\ NoCacheNoRequest

\* The slot of a request that runs beside the requests under study.
MeTasks == {1}

\* Requests to the admin routes and to /users/me, each with one of the
\* tokens handed out at the logins.
\* The admin routes that read and write users.
UserRoutes == {"read_user", "update_user", "delete", "role"}

NextDemotion ==
    \/ \E t \in RouteTasks, token \in RouteTokens, op \in UserRoutes :
            \E arg \in RouteArguments(op) :
                AdminRouteBegin(t, token, op, arg[1], arg[2])
    \/ \E t \in RouteTasks : ReadUserRun(t)
    \/ \E t \in RouteTasks, id \in UserIds, user \in UpdateUser :
            Admitted(t, "update_user") /\ UpdateUserBegin(t, id, user)
    \/ \E t \in RouteTasks : UpdateUserFlush(t)
    \/ \E t \in RouteTasks : UpdateUserCommit(t)
    \/ \E t \in RouteTasks, u \in UserIds : LockAdminRow(t, u)
    \/ \E t \in RouteTasks : UpdateRoleRun(t)
    \/ \E t \in RouteTasks : UpdateRoleFlush(t)
    \/ \E t \in RouteTasks : UpdateRoleCommit(t)
    \/ \E t \in RouteTasks : DeleteUserLock(t)
    \/ \E t \in RouteTasks : DeleteUserRun(t)
    \/ \E t \in RouteTasks : DeleteUserFinish(t)
    \/ \E t \in RouteTasks : AdminRollback(t)
    \/ \E t \in MeTasks, token \in RouteTokens : ReadUsersMe(t, token)

\* Two administrators who change each other's role, rename and deactivate
\* users and go on sending requests with the tokens they hold.
SpecDemotion == InitTwoAdmins /\ [][NextDemotion]_vars

\* The access tokens of the two accounts.
AccessTokens == {create_access_token(u, 2 * u - 1) : u \in Accounts}

\* Registration, login, refresh, logout, an order, and the admin routes on
\* users, called by either account with any body.
NextRoles ==
    \/ \E t \in EditTasks, body \in AskingForAdmin(CreateUser) :
            CreateUserBegin(t, ValidateUserBody(body))
    \/ \E t \in EditTasks : CreateUserCommit(t)
    \/ \E t \in MeTasks, token \in AccessTokens,
          op \in {"update_user", "delete", "role"} :
            \E arg \in RouteArguments(op) :
                AdminRouteBegin(t, token, op, arg[1], arg[2])
    \/ \E t \in MeTasks, id \in UserIds, body \in AskingForAdmin(UpdateUser) :
            Admitted(t, "update_user")
                /\ UpdateUserBegin(t, id, ValidateUserBody(body))
    \/ \E t \in MeTasks : UpdateUserFlush(t)
    \/ \E t \in MeTasks : UpdateUserCommit(t)
    \/ \E t \in MeTasks, u \in UserIds : LockAdminRow(t, u)
    \/ \E t \in MeTasks : UpdateRoleRun(t)
    \/ \E t \in MeTasks : UpdateRoleFlush(t)
    \/ \E t \in MeTasks : UpdateRoleCommit(t)
    \/ \E t \in MeTasks : DeleteUserLock(t)
    \/ \E t \in MeTasks : DeleteUserRun(t)
    \/ \E t \in MeTasks : DeleteUserFinish(t)
    \/ \E t \in MeTasks : AdminRollback(t)
    \/ \E t \in MeTasks, username \in Accounts, password \in PasswordOf :
            LoginBegin(t, username, password)
    \/ \E t \in MeTasks, token \in issued : RefreshBegin(t, token)
    \/ \E t \in MeTasks, token \in issued : LogoutBegin(t, token)
    \/ \E t \in MeTasks : AuthCommit(t)
    \/ \E t \in MeTasks, items \in SingleItemOrders :
            CreateOrderBegin(t, items, 2)
    \/ \E t \in MeTasks, p \in ProductIds : LockProductRow(t, p)
    \/ \E t \in MeTasks : CreateOrderRun(t)
    \/ \E t \in MeTasks : CreateOrderCommit(t)

\* Every route that writes a user, called by an admin and by a user.
SpecRoles == InitTokens /\ [][NextRoles]_vars

(***************************************************************************)
(* Orders: stock, atomicity, totals, price snapshots.                      *)
(***************************************************************************)
RECURSIVE SumSeq(_)
SumSeq(s) == IF s = <<>> THEN 0 ELSE Head(s) + SumSeq(Tail(s))

\* The quantity of product p in an order's items.
OrderedQty(order, p) ==
    SumSeq([k \in 1..Len(order.items) |->
        IF order.items[k].product_id = p THEN order.items[k].quantity ELSE 0])

\* The quantity of product p in all committed orders.
CommittedQty(p) == SumSeq([i \in 1..Len(orders) |-> OrderedQty(orders[i], p)])

\* The sum of unit_price * quantity over an order's items.
ItemsTotal(order) ==
    SumSeq([k \in 1..Len(order.items) |->
        order.items[k].unit_price * order.items[k].quantity])

ValidationErrors == {"ProductNotFound", "InsufficientStock", "ProductUnavailableError"}

\* C1: against a product whose stock is S, the quantities of that product in
\* the committed orders never add up to more than S, whatever create_order
\* requests run and however they interleave.
C1_CommittedQuantitiesWithinStock ==
    \A p \in StockedProducts : CommittedQty(p) <= InitStock

\* C2: a create_order request of which any item fails validation changes no
\* product's stock and persists no order, whichever item fails: no step of
\* the request changes the store, and when the check fails no product has
\* been decremented even in memory.
C2_FailedOrderChangesNothing ==
    [][\A t \in OrderTasks :
         (otask'[t] # otask[t] /\ otask'[t].result # "created")
         => /\ products' = products
            /\ orders' = orders
            /\ (otask'[t].pc = "raised" /\ otask'[t].result \in ValidationErrors)
               => otask'[t].mem = otask'[t].snap]_vars

\* C2's case: the second item of a request failed its check after the first
\* item had passed.
C2_Witness ==
    \E t \in OrderTasks :
        /\ otask[t].pc = "raised"
        /\ otask[t].result \in ValidationErrors
        /\ Len(otask[t].items) = 2
        /\ ValidateItems(<<otask[t].items[1]>>, otask[t].snap) = "ok"

\* C3: the orders only grow, and every order that is persisted has
\* total_price equal to the sum of unit_price * quantity over its items, each
\* unit_price being the product's price at that moment, and leaves each
\* product's stock reduced by exactly the quantity ordered of it.
C3_TotalAndStockExact ==
    [][\/ orders' = orders
       \/ /\ Len(orders') = Len(orders) + 1
          /\ SubSeq(orders', 1, Len(orders)) = orders
          /\ LET order == orders'[Len(orders')]
             IN  /\ order.total_price = ItemsTotal(order)
                 /\ Len(order.items) >= 1
                 /\ \A k \in 1..Len(order.items) :
                        order.items[k].unit_price
                            = products[order.items[k].product_id].price
                 /\ \A p \in ProductIds :
                        products'[p] = [products[p] EXCEPT
                            !.stock = @ - OrderedQty(order, p)]]_vars

\* C3's case: an order of two products with quantities 2 and 1 is persisted
\* after a price update, and another order before it.
C3_Witness ==
    /\ Len(orders) = 2
    /\ Len(orders[2].items) = 2
    /\ orders[2].items[1].product_id # orders[2].items[2].product_id
    /\ orders[2].items[1].quantity = 2
    /\ orders[2].items[1].unit_price = NewPrice

\* C4: a product update never changes an existing order: every item's
\* unit_price and every order's total_price stay as they were persisted.
C4_OrdersKeepPriceSnapshot ==
    [][/\ Len(orders') >= Len(orders)
       /\ \A i \in 1..Len(orders) : orders'[i] = orders[i]
       /\ ptask' # ptask => orders' = orders]_vars

\* C4's case: the price of a product differs from the unit_price at which an
\* existing order holds it, and the product update that changed it is done.
C4_Witness ==
    /\ ptask.pc = "done"
    /\ \E i \in 1..Len(orders) : \E k \in 1..Len(orders[i].items) :
           products[orders[i].items[k].product_id].price # orders[i].items[k].unit_price

(***************************************************************************)
(* Sessions: rotation, logout, single slot, token types.                   *)
(***************************************************************************)
\* The refresh endpoint would exchange the token for a new pair now.
Accepted(token) == get_refresh_access_token(users, token, jti).status = 200

\* The refresh tokens that a refresh call has exchanged and answered.
Redeemed ==
    {atask[t].presented : t \in {x \in AuthTasks :
        /\ atask[x].pc = "done"
        /\ atask[x].op = "refresh"
        /\ atask[x].status = 200}}

\* C5: once a refresh call with R1 has returned a new pair, R1 is no longer
\* accepted, and every refresh call that presents R1 afterwards is answered
\* 401.
C5_RotatedTokenIsRejected ==
    [][/\ \A tok \in Redeemed' : ~Accepted(tok)'
       /\ \A t \in AuthTasks :
            (/\ atask[t].pc = "idle"
             /\ atask'[t].op = "refresh"
             /\ atask'[t].presented \in Redeemed)
            => atask'[t].status = 401]_vars

\* A refresh with R1 was answered 200 and a later one with R1 401.
C5_Witness ==
    \E t1 \in AuthTasks, t2 \in AuthTasks :
        /\ atask[t1].pc = "done" /\ atask[t1].op = "refresh"
        /\ atask[t1].status = 200
        /\ atask[t2].pc = "done" /\ atask[t2].op = "refresh"
        /\ atask[t2].status = 401
        /\ atask[t2].presented = atask[t1].presented

\* C6: from the commit of a logout until the user's next login, the user's
\* stored hash is empty and no refresh token handed out for the user is
\* accepted.
C6_LogoutEndsTheSession ==
    \A u \in UserIds :
        session[u] = "out" =>
            /\ users[u].hashed_refresh_token = NoHash
            /\ \A tok \in issued : tok.sub = u => ~Accepted(tok)

\* C7: at most one refresh token per user is accepted at any moment, and
\* when a login commits, no token handed out for the user before it is
\* accepted any more.
C7_SingleSlotSessions ==
    [][/\ \A u \in UserIds :
            Cardinality({tok \in issued' : tok.sub = u /\ Accepted(tok)'}) <= 1
       /\ \A t \in AuthTasks :
            (/\ atask[t].pc = "return"
             /\ atask[t].op = "login"
             /\ atask'[t].pc = "done")
            => \A tok \in issued :
                    tok.sub = atask[t].uid => ~Accepted(tok)']_vars

\* Two logins of one user have been answered, no refresh was called, and of
\* the user's two refresh tokens exactly one is accepted.
C7_Witness ==
    \E u \in UserIds :
        /\ Cardinality({t \in AuthTasks : atask[t].pc = "done"
                /\ atask[t].op = "login" /\ atask[t].status = 200}) = 2
        /\ \A t \in AuthTasks : atask[t].op # "refresh"
        /\ Cardinality({tok \in issued :
                tok.sub = u /\ tok.type = "refresh"}) = 2
        /\ Cardinality({tok \in issued : tok.sub = u /\ Accepted(tok)}) = 1

\* C8: a request that presents a refresh token as its bearer token is
\* answered 401, and so is a refresh call that presents an access token.
C8_TokenTypesAreNotInterchangeable ==
    [][\A t \in AuthTasks :
        (atask[t].pc = "idle" /\ atask'[t].pc # "idle") =>
            /\ (/\ atask'[t].op \in {"me", "logout"}
                /\ atask'[t].presented.type = "refresh")
               => atask'[t].status = 401
            /\ (/\ atask'[t].op = "refresh"
                /\ atask'[t].presented.type = "access")
               => atask'[t].status = 401]_vars

\* An accepted refresh token was refused as a bearer token, and the access
\* token of the same login was refused by the refresh endpoint.
C8_Witness ==
    \E t1 \in AuthTasks, t2 \in AuthTasks :
        /\ atask[t1].pc = "done" /\ atask[t1].op = "me"
        /\ atask[t1].presented.type = "refresh"
        /\ Accepted(atask[t1].presented)
        /\ atask[t1].status = 401
        /\ atask[t2].pc = "done" /\ atask[t2].op = "refresh"
        /\ atask[t2].presented.type = "access"
        /\ atask[t2].presented.sub = atask[t1].presented.sub
        /\ atask[t2].status = 401

(***************************************************************************)
(* Administrators.                                                         *)
(***************************************************************************)
Admins == {u \in UserIds : users[u].exists /\ users[u].role = "admin"}

Quiet(t) == \A x \in AdminTasks \ {t} : utask[x].pc \in {"idle", "done"}

\* C10: a request answered while no other request is in flight: on the
\* only admin, a demotion and a delete (of a user without orders) are
\* answered LastAdminError and change nothing; on one of several admins, a
\* demotion is answered 200 and the user has the role user, and a delete of
\* a user without orders is answered 204 and the user is gone.
C10_LastAdminGuard ==
    [][\A t \in AdminTasks :
        LET a == utask[t]
            demote == a.op = "role" /\ a.role = "user"
            delete == a.op = "delete" /\ user_orders(a.target) = {}
        IN  (/\ Quiet(t)
             /\ a.pc \in {"raised", "return"}
             /\ utask'[t].pc = "done"
             /\ a.target \in Admins) =>
                /\ (Admins = {a.target} /\ (demote \/ delete)) =>
                        /\ utask'[t].status = "LastAdminError"
                        /\ users' = users
                /\ (Admins # {a.target} /\ demote) =>
                        /\ utask'[t].status = "200"
                        /\ users' = [users EXCEPT ![a.target].role = "user"]
                /\ (Admins # {a.target} /\ delete) =>
                        /\ utask'[t].status = "204"
                        /\ ~users'[a.target].exists]_vars

(***************************************************************************)
(* Order reads.                                                            *)
(***************************************************************************)
\* C11: a read of an order by its id returns the order only when the order's
\* user_id is the caller's id; for an order of another user the answer is
\* the not-found answer, the very one an id that no order has gets.
C11_OrdersAreReadByTheirOwnerOnly ==
    [][\A t \in ReadTasks :
        (rtask[t].pc = "idle" /\ rtask'[t].pc = "done") =>
            LET r == rtask'[t]
            IN  IF /\ r.order_id \in 1..Len(orders)
                   /\ orders[r.order_id].user_id = r.caller
                THEN /\ r.answer.status = 200
                     /\ r.answer.body = orders[r.order_id]
                ELSE /\ r.answer.status = 404
                     /\ r.answer.body = NoOrder
                     /\ r.answer = read_order(<<>>, r.order_id, r.caller)]_vars

\* C11's case: an account has read the id of an order of the other account
\* and was answered not found.
C11_Witness ==
    \E t \in ReadTasks :
        /\ rtask[t].pc = "done"
        /\ rtask[t].order_id \in 1..Len(orders)
        /\ orders[rtask[t].order_id].user_id # rtask[t].caller
        /\ rtask[t].answer.status = 404

(***************************************************************************)
(* Products: the cache, deletes, stock, unique names.                      *)
(***************************************************************************)
\* C12: a read of a product whose key has an entry in the cache returns
\* that entry as it is and ends there, without a read of the store and
\* without a write of the cache, whatever the store holds for the product.
C12_CacheHitReturnsTheEntry ==
    [][\A t \in GetTasks :
        (gtask[t].pc = "idle" /\ gtask'[t].pc # "idle"
            /\ cache[gtask'[t].id] # NoEntry) =>
                /\ gtask'[t].pc = "done"
                /\ gtask'[t].from = "cache"
                /\ gtask'[t].status = 200
                /\ gtask'[t].body = cache[gtask'[t].id]
                /\ cache' = cache]_vars

\* C12's case: a read was answered from the cache with an entry that is
\* not what the store holds for the product.
C12_Witness ==
    \E t \in GetTasks :
        /\ gtask[t].pc = "done" /\ gtask[t].from = "cache"
        /\ products[gtask[t].id].exists
        /\ gtask[t].body # ReadProduct(gtask[t].id, products[gtask[t].id])

\* C13: a read that misses the cache reads the store; for a product that
\* exists it then stores, under the product's key, the row as it was at
\* that read, and returns it; for an id with no row it writes no entry.
C13_MissFillsTheCacheFromTheStore ==
    [][\A t \in GetTasks :
        /\ (gtask[t].pc = "miss" /\ gtask'[t].pc # "miss") =>
                /\ cache' = cache
                /\ IF products[gtask[t].id].exists
                   THEN /\ gtask'[t].pc = "fill"
                        /\ gtask'[t].seen = products[gtask[t].id]
                   ELSE /\ gtask'[t].pc = "done"
                        /\ gtask'[t].status = 404
                        /\ gtask'[t].body = NoEntry
        /\ (gtask[t].pc = "fill" /\ gtask'[t].pc # "fill") =>
                /\ gtask'[t].pc = "done"
                /\ gtask'[t].status = 200
                /\ gtask'[t].body = ReadProduct(gtask[t].id, gtask[t].seen)
                /\ cache'[gtask[t].id] = gtask'[t].body
                /\ \A p \in ProductIds \ {gtask[t].id} : cache'[p] = cache[p]]_vars

\* C13's case: a read that missed has returned a product from the store,
\* and the cache holds it under the product's key.
C13_Witness ==
    \E t \in GetTasks :
        /\ gtask[t].pc = "done" /\ gtask[t].from = "store"
        /\ gtask[t].status = 200
        /\ cache[gtask[t].id] = gtask[t].body

\* C14: with each request run alone, the commit of a product update or of a
\* product delete leaves no cache entry under the product's key, and every
\* read is answered with what the store holds: the updated row, or not
\* found.
C14_WritesInvalidateTheCache ==
    [][/\ (ptask.pc = "flushed" /\ ptask'.pc = "done") =>
                cache'[ptask.id] = NoEntry
       /\ \A t \in CatalogTasks :
            (ctask[t].pc = "flushed" /\ ctask[t].op = "delete"
                /\ ctask'[t].pc = "done") => cache'[ctask[t].id] = NoEntry
       /\ \A t \in GetTasks :
            (gtask[t].pc # "done" /\ gtask'[t].pc = "done") =>
                IF products'[gtask'[t].id].exists
                THEN /\ gtask'[t].status = 200
                     /\ gtask'[t].body =
                            ReadProduct(gtask'[t].id, products'[gtask'[t].id])
                ELSE gtask'[t].status = 404]_vars

\* C14's case: a read put a product in the cache, an update of the product
\* committed, and a second read returned the updated row from the store.
C14_Witness ==
    /\ ptask.pc = "done" /\ ptask.result = "updated"
    /\ gtask[1].pc = "done" /\ gtask[2].pc = "done"
    /\ gtask[1].id = gtask[2].id
    /\ gtask[1].status = 200 /\ gtask[2].status = 200
    /\ gtask[1].body # gtask[2].body
    /\ gtask[2].from = "store"
    /\ gtask[2].body = ReadProduct(gtask[2].id, products[gtask[2].id])

\* C15: the delete of a product that an order item names is refused with
\* ProductInUseError and changes neither the product rows, nor the orders
\* and their items, nor the cache; the delete of a product that no order
\* item names goes on, and its commit removes the row.
C15_ProductInUseIsNotDeleted ==
    [][\A t \in CatalogTasks :
        /\ (ctask[t].pc = "idle" /\ ctask'[t].op = "delete"
                /\ products[ctask'[t].id].exists) =>
                IF order_items(orders, ctask'[t].id) # {}
                THEN /\ ctask'[t].pc = "done"
                     /\ ctask'[t].result = "ProductInUseError"
                     /\ ctask'[t].status = 409
                     /\ products' = products /\ orders' = orders
                     /\ cache' = cache
                ELSE ctask'[t].pc = "checked"
        /\ (ctask[t].pc = "flushed" /\ ctask[t].op = "delete"
                /\ ctask'[t].pc = "done") =>
                /\ ctask'[t].status = 204
                /\ ~products'[ctask[t].id].exists
                /\ orders' = orders]_vars

\* C15's case: the delete of a product in an order was refused, the row is
\* in the store and its cache entry is in the cache.
C15_Witness ==
    \E t \in CatalogTasks :
        /\ ctask[t].pc = "done" /\ ctask[t].result = "ProductInUseError"
        /\ products[ctask[t].id].exists
        /\ cache[ctask[t].id] # NoEntry

\* C18: the stock of every product is at least 0 in every reachable state.
C18_StockIsNeverNegative ==
    \A p \in ProductIds : products[p].exists => products[p].stock >= 0

(***************************************************************************)
(* Users and products: unique names.                                       *)
(***************************************************************************)
\* C19: a request that writes a username or a product name another row
\* holds ends with UsernameAlreadyExistsError or with
\* ProductNameAlreadyExistsError, never with the error of the store, and
\* changes no row: on a user create, a user update, a product create and a
\* product update.
C19_DuplicateNamesRaiseDomainErrors ==
    [][/\ \A t \in EditTasks :
            (etask[t].pc # "done" /\ etask'[t].pc = "done"
                /\ etask'[t].result \notin {"created", "updated", "NotFound",
                                             "StaleDataError"}) =>
                    /\ etask'[t].result = "UsernameAlreadyExistsError"
                    /\ users' = users
       /\ \A t \in CatalogTasks :
            (ctask[t].pc = "idle" /\ ctask'[t].pc = "done"
                /\ ctask'[t].op = "create") =>
                    /\ ctask'[t].result = "ProductNameAlreadyExistsError"
                    /\ products' = products
       /\ (ptask.pc = "loaded" /\ ptask'.pc = "done"
                /\ ptask'.result # "StaleDataError") =>
                    /\ ptask'.result = "ProductNameAlreadyExistsError"
                    /\ products' = products]_vars

(***************************************************************************)
(* Users: the guards and the answer of a delete.                           *)
(***************************************************************************)
\* C16: the delete of a user who has orders raises UserHasOrdersError, also
\* when the user is the only admin; the delete of the only admin, who has
\* no orders, raises LastAdminError; neither changes a user or an order,
\* and the error raised is the answer.
C16_DeleteUserGuards ==
    [][\A t \in AdminTasks :
        LET a == utask[t]
        IN  /\ (a.op = "delete" /\ a.pc = "check" /\ utask'[t].pc # "check") =>
                /\ user_orders(a.target) # {} =>
                        /\ utask'[t].pc = "raised"
                        /\ utask'[t].status = "UserHasOrdersError"
                /\ (user_orders(a.target) = {} /\ Admins = {a.target}) =>
                        /\ utask'[t].pc = "raised"
                        /\ utask'[t].status = "LastAdminError"
                /\ users' = users /\ orders' = orders
            /\ (a.op = "delete" /\ a.pc = "raised" /\ utask'[t].pc = "done"
                    /\ a.status \in {"UserHasOrdersError", "LastAdminError"}) =>
                /\ utask'[t].status = a.status
                /\ users' = users /\ orders' = orders]_vars

\* C16's case: the delete of the only admin, who has an order, has raised
\* UserHasOrdersError.
C16_Witness ==
    \E t \in AdminTasks :
        /\ utask[t].op = "delete" /\ utask[t].pc = "raised"
        /\ utask[t].status = "UserHasOrdersError"
        /\ Admins = {utask[t].target}
        /\ user_orders(utask[t].target) # {}

\* C17: the delete, by an admin, of a user who exists, has no orders and is
\* not the only admin is answered 204, and the user is no longer in the
\* store.
C17_AdminCanDeleteUser ==
    [][\A t \in AdminTasks :
        LET a == utask[t]
        IN  (/\ a.op = "delete" /\ a.pc \in {"return", "raised"}
             /\ utask'[t].pc = "done"
             /\ users[a.target].exists
             /\ user_orders(a.target) = {}
             /\ Admins # {a.target}) =>
                /\ utask'[t].status = "204"
                /\ ~users'[a.target].exists]_vars

(***************************************************************************)
(* Login failures.                                                         *)
(***************************************************************************)
\* C20: a login that fails, for a username no user has or for a wrong
\* password, has the status and the message of the login of account 1 with
\* a password that is not its own, and changes no user row, so no stored
\* refresh hash.
C20_LoginFailuresAreAlike ==
    [][\A t \in AuthTasks :
        (atask[t].pc = "idle" /\ atask'[t].op = "login"
            /\ atask'[t].status # 200) =>
            LET wrong == get_login_for_access_token(users, 1, Password(2), jti)
            IN  /\ atask'[t].pc = "done"
                /\ atask'[t].status = 401
                /\ atask'[t].status = wrong.status
                /\ atask'[t].detail = wrong.detail
                /\ users' = users]_vars

\* C20's case: a login for a username no user has and a login of an account
\* with a wrong password were both refused, while a refresh hash is stored.
C20_Witness ==
    \E t1 \in AuthTasks, t2 \in AuthTasks :
        /\ atask[t1].pc = "done" /\ atask[t1].op = "login"
        /\ atask[t1].status = 401
        /\ ~get_by_username(users, atask[t1].presented.sub).exists
        /\ atask[t2].pc = "done" /\ atask[t2].op = "login"
        /\ atask[t2].status = 401
        /\ get_by_username(users, atask[t2].presented.sub).exists
        /\ \E u \in Accounts : users[u].hashed_refresh_token # NoHash

(***************************************************************************)
(* Tokens: failures, inactive users.                                       *)
(***************************************************************************)
\* C21: every request that is refused for its token, on /users/me, on
\* /users/logout and on /users/token/refresh, is answered 401 with the one
\* message "Could not validate credentials", whatever is wrong with the
\* token: an expired token is answered as any other invalid token.
C21_TokenFailuresAreAlike ==
    [][\A t \in AuthTasks :
        (atask[t].pc = "idle" /\ atask'[t].pc = "done"
            /\ atask'[t].op \in {"me", "logout", "refresh"}
            /\ atask'[t].status # 200) =>
                /\ atask'[t].status = 401
                /\ atask'[t].detail = Unauthorized.detail]_vars

\* C22: a request to /users/me or /users/logout that presents an access
\* token issued at login, once the store shows the token's user with the
\* available flag false, is answered 401.
C22_InactiveUserIsRejected ==
    [][\A t \in AuthTasks :
        (/\ atask[t].pc = "idle" /\ atask'[t].pc # "idle"
         /\ atask'[t].op \in {"me", "logout"}
         /\ atask'[t].presented \in IssuedAtLogin
         /\ atask'[t].presented.type = "access"
         /\ \E u \in UserIds : /\ users[u].exists
                               /\ users[u].username = atask'[t].presented.sub
                               /\ ~users[u].available)
            => atask'[t].status = 401]_vars

(***************************************************************************)
(* Admin routes.                                                           *)
(***************************************************************************)
\* C23: a request to an admin route (product create, update, delete; user
\* list, read, update, delete, role change) is answered 403 when its
\* access token names an active user who is not an admin, and 401 when it
\* carries no valid access token; either way the step changes no user, no
\* product, no order and no cache entry, and no handler starts.
C23_AdminRoutesRefuseOthers ==
    [][\A t \in AdminTasks :
        (utask[t].pc = "idle" /\ utask'[t].pc # "idle"
            /\ utask'[t].op \in AdminRoutes) =>
          LET caller == utask'[t].caller IN
            /\ (caller = 0 \/ users[caller].role # "admin") =>
                    /\ utask'[t].pc = "done"
                    /\ utask'[t].status = IF caller = 0 THEN "401"
                                          ELSE IF users[caller].available
                                               THEN "403" ELSE "401"
                    /\ UNCHANGED <<users, products, orders, cache>>
                    /\ UNCHANGED <<ctask, ptask, etask, ulock>>
            /\ (caller # 0 /\ users[caller].role = "admin"
                    /\ users[caller].available) => utask'[t].pc # "done"]_vars

\* A product is cached, the other account was refused a product delete
\* with 403 and a request without a valid token a role change with 401.
C23_Witness ==
    /\ \E p \in ProductIds : cache[p] # NoEntry
    /\ \E t1 \in RouteTasks, t2 \in RouteTasks :
        /\ utask[t1].pc = "done" /\ utask[t1].op = "delete_product"
        /\ utask[t1].caller = 2 /\ utask[t1].status = "403"
        /\ utask[t2].pc = "done" /\ utask[t2].op = "role"
        /\ utask[t2].caller = 0 /\ utask[t2].status = "401"

(***************************************************************************)
(* The cache out of reach.                                                 *)
(***************************************************************************)
\* C24: with the cache empty or out of reach, no product read, update or
\* delete ends with the error of a cache command: a read returns the
\* store's product and an update or delete goes on to its commit.
C24_CacheFailuresAreAbsorbed ==
    /\ \A t \in GetTasks : gtask[t].status # 500
    /\ \A t \in CatalogTasks : ctask[t].result # "ConnectionError"
    /\ ptask.result # "ConnectionError"

(***************************************************************************)
(* Role changes.                                                           *)
(***************************************************************************)
\* C25: when updated_new_role reaches its checks, a username no user has
\* gives the 404, and a role the user already has in the store gives
\* UselessOperationError, also for the only admin asked to become admin;
\* neither step, nor the rollback after it, changes a user.
C25_UselessRoleChangeIsRefused ==
    [][\A t \in AdminTasks :
        LET a == utask[t] IN
        /\ (a.pc = "lock" /\ a.op = "role" /\ utask'[t].pc # "lock") =>
            /\ ~users[a.target].exists =>
                    /\ utask'[t].pc = "raised" /\ utask'[t].status = "404"
                    /\ UNCHANGED users
            /\ (users[a.target].exists /\ users[a.target].role = a.role) =>
                    /\ utask'[t].pc = "raised"
                    /\ utask'[t].status = "UselessOperationError"
                    /\ UNCHANGED users
        /\ (a.pc = "raised" /\ utask'[t].pc # "raised") =>
                UNCHANGED users]_vars

(***************************************************************************)
(* create_order: the empty list, the order of the checks, the rollback.    *)
(***************************************************************************)
\* C26: a create_order that raises EmptyOrder does so in its first step,
\* with no product row locked or read, and neither that step nor its
\* rollback changes a product, an order or a lock; no request with an
\* empty list reaches the lock query, and every order in the store has at
\* least one item.
C26_EmptyOrderIsRefusedFirst ==
    [][/\ \A t \in OrderTasks :
            /\ (otask[t].result # "EmptyOrder" /\ otask'[t].result = "EmptyOrder") =>
                    /\ otask[t].pc = "idle"
                    /\ otask'[t].locked = {} /\ otask'[t].snap = NoSnap
                    /\ UNCHANGED <<products, orders, plock>>
            /\ (otask[t].result = "EmptyOrder" /\ otask'[t] # otask[t]) =>
                    UNCHANGED <<products, orders, plock>>
            /\ otask'[t].pc \in {"lock", "flushed"} => otask'[t].items # <<>>
       /\ \A i \in 1..Len(orders') : Len(orders'[i].items) >= 1]_vars

\* One request was refused with EmptyOrder and another one's order is in
\* the store.
C26_Witness ==
    /\ Len(orders) >= 1
    /\ \E t \in OrderTasks : otask[t].pc = "done" /\ otask[t].result = "EmptyOrder"

\* C27 as stated: when the lock query has returned, a request with an item
\* of a product that does not exist ends with ProductNotFound, whatever
\* its other items; else one with an item above the stock ends with
\* InsufficientStock; else one with an unavailable product ends with
\* ProductUnavailableError.
C27_ChecksRunInPhases ==
    [][\A t \in OrderTasks :
        (otask[t].pc = "lock" /\ otask'[t].pc \in {"raised", "flushed"}) =>
            LET items == otask[t].items
                Product(k) == otask[t].snap[items[k].product_id]
                Items == 1..Len(items)
            IN  otask'[t].result =
                    IF \E k \in Items : ~Product(k).exists
                    THEN "ProductNotFound"
                    ELSE IF \E k \in Items : Product(k).stock < items[k].quantity
                    THEN "InsufficientStock"
                    ELSE IF \E k \in Items : ~Product(k).available
                    THEN "ProductUnavailableError"
                    ELSE "flushed"]_vars

\* C27, amended: the request ends with the error of the first item of the
\* list that fails a check, and for that item existence is checked before
\* stock and stock before availability; items after it are not looked at.
C27_ChecksRunItemByItem ==
    [][\A t \in OrderTasks :
        (otask[t].pc = "lock" /\ otask'[t].pc \in {"raised", "flushed"}) =>
            LET items == otask[t].items
                Product(k) == otask[t].snap[items[k].product_id]
                Fails(k) == \/ ~Product(k).exists
                            \/ Product(k).stock < items[k].quantity
                            \/ ~Product(k).available
                failing == {k \in 1..Len(items) : Fails(k)}
            IN  IF failing = {} THEN otask'[t].result = "flushed"
                ELSE LET first == CHOOSE k \in failing :
                                    \A j \in failing : k <= j
                     IN  otask'[t].result =
                            IF ~Product(first).exists THEN "ProductNotFound"
                            ELSE IF Product(first).stock < items[first].quantity
                            THEN "InsufficientStock"
                            ELSE "ProductUnavailableError"]_vars

\* A request whose first item is above the stock and whose second item
\* names a product that does not exist was refused with InsufficientStock.
C27_Witness ==
    \E t \in OrderTasks :
        /\ otask[t].pc = "raised" /\ otask[t].result = "InsufficientStock"
        /\ \E k \in 1..Len(otask[t].items) :
                ~otask[t].snap[otask[t].items[k].product_id].exists

C29_OverlappingOrdersTerminate ==
    \A t \in OrderTasks :
        (otask[t].pc = "lock") ~>
            (/\ otask[t].pc = "done"
             /\ otask[t].result \in {"created", "ProductNotFound",
                    "InsufficientStock", "ProductUnavailableError"})

(***************************************************************************)
(* Orders that fail after their rows were locked.                          *)
(***************************************************************************)
\* C30: a create_order holds the locks of its rows from the lock query to
\* its end and changes the store in one step only, the commit of a request
\* that succeeded; a request that ends in any other way after it locked
\* rows, also after its decrements and its order were flushed, leaves
\* every product and every order as they were and its row locks free.
C30_FailedOrderRollsBack ==
    [][\A t \in OrderTasks :
        /\ otask[t].pc \in {"lock", "flushed", "raised"} =>
                \A p \in otask[t].locked : plock[p] = OrderOwner(t)
        /\ (otask'[t] # otask[t] /\ otask'[t].result # "created") =>
                UNCHANGED <<products, orders>>
        /\ (otask[t].locked # {} /\ otask'[t].pc = "done"
                /\ otask'[t].result # "created") =>
                \A p \in otask[t].locked : plock'[p] = NoOwner]_vars

\* A request that was aborted after its flush is over, another request's
\* order is the only one in the store, and the stocks are the initial ones
\* less that order.
C30_Witness ==
    \E t1 \in OrderTasks, t2 \in OrderTasks :
        /\ otask[t1].pc = "done" /\ otask[t1].result = "AbortedAfterFlush"
        /\ otask[t2].pc = "done" /\ otask[t2].result = "created"
        /\ Len(orders) = 1
        /\ \A p \in StockedProducts :
                products[p].stock = InitStock - OrderedQty(orders[1], p)

(***************************************************************************)
(* Orders beside one another.                                              *)
(***************************************************************************)
\* Request x is in flight and names a product that request t names.
SharesProduct(t, x) ==
    /\ otask[x].pc \in {"lock", "flushed", "raised"}
    /\ RequestedIds(otask[t].items) \cap RequestedIds(otask[x].items) # {}

\* C31: a request in its lock query can take the lock of a row it still
\* needs unless a request in flight that shares a product with it, or the
\* product update, holds that row; and when it goes on to its checks, the
\* stock it checks for each row is the stock the store holds, with the
\* decrement of every order committed before.
C31_DisjointOrdersRunInParallel ==
    [][\A t \in OrderTasks :
        otask[t].pc = "lock" =>
            /\ \A p \in RequestedIds(otask[t].items) \ otask[t].locked :
                    (/\ products[p].exists
                     /\ plock[p] # UpdateOwner
                     /\ \A x \in OrderTasks \ {t} : ~SharesProduct(t, x))
                        => ENABLED LockProductRow(t, p)
            /\ otask'[t].pc \in {"flushed", "raised"} =>
                    \A p \in otask[t].locked :
                        otask[t].snap[p].stock = products[p].stock]_vars

\* One order is committed, and a second request for a product of that
\* order has passed its checks against the stock the first one left.
C31_Witness ==
    \E t \in OrderTasks :
        /\ Len(orders) = 1
        /\ otask[t].pc = "flushed"
        /\ \E p \in otask[t].locked :
                /\ OrderedQty(orders[1], p) > 0
                /\ otask[t].snap[p].stock = InitStock - OrderedQty(orders[1], p)

\* C32: when a create_order request commits, for every product the sum of
\* the quantities of the order's items naming that product is at most the
\* stock the store held for it, and the stock it leaves is not negative.
C32_RepeatedProductWithinStock ==
    [][\A t \in OrderTasks :
        (otask[t].pc = "flushed" /\ otask'[t].result = "created") =>
            \A p \in ProductIds :
                /\ OrderedQty(otask[t].order, p) <= products[p].stock
                /\ products'[p].stock >= 0]_vars

\* C33: of the refresh calls that present one refresh token, at most one
\* is answered with a new token pair, also when the calls overlap.
C33_RefreshTokenRedeemedOnce ==
    \A tok \in issued :
        Cardinality({t \in AuthTasks :
            /\ atask[t].pc = "done"
            /\ atask[t].op = "refresh"
            /\ atask[t].status = 200
            /\ atask[t].presented = tok}) <= 1

\* C34: once a product update or delete has committed and no read, update,
\* create or delete is in flight, the cache holds for every product id
\* either no entry or the row the store holds.
C34_CacheSettlesAfterWrites ==
    (/\ \A t \in GetTasks : gtask[t].pc \in {"idle", "done"}
     /\ \A t \in CatalogTasks : ctask[t].pc \in {"idle", "done"}
     /\ ptask.pc \in {"idle", "done"})
    => \A p \in ProductIds :
            \/ cache[p] = NoEntry
            \/ /\ products[p].exists
               /\ cache[p] = ReadProduct(p, products[p])

\* C35: whenever the cache holds an entry for a product id, the store holds
\* that product and the stock of the entry is the stock of the store's row.
C35_CachedStockIsTheStoresStock ==
    \A p \in ProductIds :
        cache[p] # NoEntry =>
            /\ products[p].exists
            /\ cache[p].stock = products[p].stock

\* C36: every item of every committed order names a product the store
\* holds, and every committed order names a user the store holds.
C36_OrdersReferenceExistingRows ==
    \A i \in 1..Len(orders) :
        /\ users[orders[i].user_id].exists
        /\ \A k \in 1..Len(orders[i].items) :
                products[orders[i].items[k].product_id].exists

\* A product delete passed its order-items check, an order for the product
\* committed before the DELETE and the store refused the DELETE; a delete
\* of the order's user has ended as well.
C36_Witness ==
    \E t \in CatalogTasks, i \in 1..Len(orders) :
        /\ ctask[t].pc = "done" /\ ctask[t].result = "IntegrityError"
        /\ order_items(<<orders[i]>>, ctask[t].id) # {}
        /\ \E a \in RemovalTasks :
                /\ utask[a].pc = "done"
                /\ utask[a].status \in {"404", "UserHasOrdersError"}

(***************************************************************************)
(* Authorization from the store.                                           *)
(***************************************************************************)
\* C37: a request that carries a well-formed access token is decided by the
\* store's row of the token's user at the time of the request: a request to
\* an admin route is refused with 403 when the row of an active user does
\* not have the role admin, whatever role the user had when the token was
\* issued, and every request is refused with 401 when the store holds no
\* row for the token's user.
C37_AuthorizationReadsTheStore ==
    [][\A token \in RouteTokens :
        LET user == get_by_username(users, token.sub) IN
        (token # Garbage /\ token.type = "access") =>
            /\ \A t \in RouteTasks, op \in AdminRoutes :
                \A arg \in RouteArguments(op) :
                    AdminRouteBegin(t, token, op, arg[1], arg[2]) =>
                        /\ ~user.exists =>
                                /\ utask'[t].pc = "done"
                                /\ utask'[t].status = "401"
                        /\ (user.exists /\ user.available
                                /\ user.role # "admin") =>
                                /\ utask'[t].pc = "done"
                                /\ utask'[t].status = "403"
            /\ \A t \in MeTasks :
                (ReadUsersMe(t, token) /\ ~user.exists) =>
                    atask'[t].status = 401]_vars

\* The second administrator was demoted and a later request of theirs to an
\* admin route, with the access token of their login, was refused with 403.
C37_Witness ==
    /\ users[2].exists /\ users[2].available /\ users[2].role = "user"
    /\ \E t \in RouteTasks :
        /\ utask[t].pc = "done"
        /\ utask[t].caller = 2
        /\ utask[t].status = "403"

(***************************************************************************)
(* Who is an admin.                                                        *)
(***************************************************************************)
\* C38: the set of users with the role admin changes only in the commit of
\* a role change or of a user delete that the admin dependency admitted;
\* no registration, login, refresh, logout, order or user update changes
\* any user's role, and the row a registration commits has the role user.
C38_OnlyAdminsMakeAdmins ==
    [][/\ Admins' # Admins =>
            \E t \in MeTasks :
                /\ utask[t].op \in {"role", "delete"}
                /\ utask[t].pc \notin {"idle", "done"}
                /\ utask'[t].pc = "done"
                /\ utask[t].caller \in Admins
       /\ \A t \in EditTasks :
            (etask[t].pc = "flushed" /\ etask'[t].pc = "done") =>
                /\ etask[t].op = "create" =>
                        users'[etask[t].id].role = "user"
                /\ \A u \in UserIds :
                        (users[u].exists /\ users'[u].exists) =>
                            users'[u].role = users[u].role]_vars

\* A registration has committed the row of a new user, with the role user,
\* and a user update has committed; the bodies of both kinds of request
\* include those that ask for the role admin.
C38_Witness ==
    /\ users[3].exists /\ users[3].role = "user"
    /\ \E t \in EditTasks :
        /\ etask[t].pc = "done" /\ etask[t].op = "update"
        /\ etask[t].result = "updated"

(***************************************************************************)
(* Deactivated accounts.                                                   *)
(***************************************************************************)
\* C39: a login with the password of a user whose available flag is false,
\* and a refresh with a refresh token of such a user, are answered 401: the
\* user gets no new token pair.
C39_InactiveUserGetsNoTokens ==
    [][\A t \in AuthTasks :
        (/\ atask[t].pc = "idle" /\ atask'[t].pc # "idle"
         /\ atask'[t].op \in {"login", "refresh"}
         /\ \E u \in UserIds : /\ users[u].exists
                               /\ users[u].username = atask'[t].presented.sub
                               /\ ~users[u].available)
            => atask'[t].status = 401]_vars

====
